---- MODULE Spec2Model ----
(***************************************************************************)
(* A model of the typegraphql-prisma generator: the DMMF transformation    *)
(* (DmmfDocument, transform.ts), the relation resolver filter              *)
(* (relations.ts), the block generator factory and the generation          *)
(* pipeline (CodeGenerator.generate, prisma-generator.ts generate).        *)
(*                                                                         *)
(* Identifiers (type names, model names) are sequences of words, e.g.      *)
(* "UserCreateInput" is <<"User", "Create", "Input">>.  Every pattern the  *)
(* code looks for (a prefix, a suffix, a substring, a regular expression)  *)
(* is made of whole words, so the string operations of the code are the    *)
(* sequence operations below.                                              *)
(***************************************************************************)
EXTENDS Integers, Sequences, FiniteSets, TLC

\* JavaScript's undefined, for a value that is otherwise a name: no name is empty
Undefined == <<>>

(***************************************************************************)
(* String operations on word sequences.                                    *)
(***************************************************************************)
startsWith(s, p) ==
  /\ Len(s) >= Len(p)
  /\ SubSeq(s, 1, Len(p)) = p

endsWith(s, p) ==
  /\ Len(s) >= Len(p)
  /\ SubSeq(s, Len(s) - Len(p) + 1, Len(s)) = p

includes(s, p) ==
  \E i \in 1..(Len(s) - Len(p) + 1) : SubSeq(s, i, i + Len(p) - 1) = p

\* /.+<word>.+Input/.test(s): something, the word, something, "Input"
matchesAroundInput(s, word) ==
  \E i \in 2..Len(s) : \E j \in (i + 2)..Len(s) :
    s[i] = word /\ s[j] = "Input"

Range(s) == { s[i] : i \in DOMAIN s }

(***************************************************************************)
(* selectInputTypeFromTypes: the input type chosen among the candidates    *)
(* of one schema argument.                                                 *)
(***************************************************************************)
VARIABLES
  inputTypes,                \* the candidates handed to selectInputTypeFromTypes
  useSimpleInputs,           \* dmmfDocument.options.useSimpleInputs
  useUncheckedScalarInputs,  \* dmmfDocument.options.useUncheckedScalarInputs
  selectedInputType,         \* the candidate chosen, Undefined before the call
  selPc                      \* "idle" | "ready" | "done"

selVars == <<inputTypes, useSimpleInputs, useUncheckedScalarInputs,
             selectedInputType, selPc>>

\* longest candidate list enumerated
MaxCands == 3

InputTypeRef(location, type, isList) ==
  [location |-> location, type |-> type, isList |-> isList]

\* candidates as Prisma's DMMF lists them for fields and arguments
CandidatePool ==
  { InputTypeRef("inputObjectTypes", <<"User", "Where", "Input">>, FALSE),
    InputTypeRef("inputObjectTypes", <<"User", "Where", "Input">>, TRUE),
    InputTypeRef("inputObjectTypes",
                 <<"String", "Field", "Update", "Operations", "Input">>, FALSE),
    InputTypeRef("inputObjectTypes",
                 <<"Post", "Create", "Nested", "Many", "Without", "Author", "Input">>,
                 FALSE),
    InputTypeRef("inputObjectTypes",
                 <<"Post", "Unchecked", "Create", "Nested", "Many", "Without",
                   "Author", "Input">>, FALSE),
    InputTypeRef("inputObjectTypes", <<"User", "Create", "Input">>, FALSE),
    InputTypeRef("inputObjectTypes", <<"User", "Unchecked", "Create", "Input">>, FALSE),
    InputTypeRef("inputObjectTypes", <<"Address", "Create", "Envelope", "Input">>, FALSE),
    InputTypeRef("inputObjectTypes",
                 <<"Post", "Update", "Many", "Mutation", "Input">>, TRUE),
    InputTypeRef("scalar", <<"String">>, FALSE),
    InputTypeRef("scalar", <<"String">>, TRUE),
    InputTypeRef("scalar", <<"Null">>, FALSE),
    InputTypeRef("enumTypes", <<"Role">>, FALSE) }

\* no candidate chosen yet
NoInputType == InputTypeRef("none", <<>>, FALSE)

CandidateLists ==
  UNION { [1..n -> CandidatePool] : n \in 1..MaxCands }

\* the denylist of compound-operation shapes skipped with useSimpleInputs
isCompoundOperationInput(type) ==
  \/ includes(type, <<"Operations", "Input">>)
  \/ includes(type, <<"Create", "Envelope", "Input">>)
  \/ matchesAroundInput(type, "Create")
  \/ matchesAroundInput(type, "Update")

isScalarNotNull(it) == it.location = "scalar" /\ it.type # <<"Null">>

\* mutant: the denylist is never applied
possibleInputTypes_keepCompound(types, simple) ==
  LET isObject(it) == it.location = "inputObjectTypes"
      isEnum(it) == it.location = "enumTypes"
      objects == SelectSeq(types, isObject)
      scalars == SelectSeq(types, isScalarNotNull)
      enums == SelectSeq(types, isEnum)
  IN IF objects # <<>> THEN objects
     ELSE IF scalars # <<>> THEN scalars
     ELSE IF enums # <<>> THEN enums
     ELSE types

\* the surviving candidates: input objects (minus the denylist when simple
\* inputs are on), else scalars other than Null, else enums, else all
possibleInputTypes(types, simple) ==
  LET isObject(it) ==
        /\ it.location = "inputObjectTypes"
        /\ (~simple \/ ~isCompoundOperationInput(it.type))
      isEnum(it) == it.location = "enumTypes"
      objects == SelectSeq(types, isObject)
      scalars == SelectSeq(types, isScalarNotNull)
      enums == SelectSeq(types, isEnum)
  IN IF objects # <<>> THEN objects
     ELSE IF scalars # <<>> THEN scalars
     ELSE IF enums # <<>> THEN enums
     ELSE types

\* mutant: the Unchecked preference is tried before the list preference
pickSelectedInputType_uncheckedFirst(possible, unchecked) ==
  LET isList(it) == it.isList
      isUnchecked(it) == includes(it.type, <<"Unchecked">>)
      lists == SelectSeq(possible, isList)
      unch == IF unchecked THEN SelectSeq(possible, isUnchecked) ELSE <<>>
  IN IF unch # <<>> THEN unch[1]
     ELSE IF lists # <<>> THEN lists[1]
     ELSE possible[1]

\* find(isList) || (useUncheckedScalarInputs && find(Unchecked)) || [0]
pickSelectedInputType(possible, unchecked) ==
  LET isList(it) == it.isList
      isUnchecked(it) == includes(it.type, <<"Unchecked">>)
      lists == SelectSeq(possible, isList)
      unch == IF unchecked THEN SelectSeq(possible, isUnchecked) ELSE <<>>
  IN IF lists # <<>> THEN lists[1]
     ELSE IF unch # <<>> THEN unch[1]
     ELSE possible[1]

\* mutant: the Unchecked preference is left out
selectInputTypeFromTypes_noUnchecked(types, simple, unchecked) ==
  pickSelectedInputType(possibleInputTypes(types, simple), FALSE)

selectInputTypeFromTypes(types, simple, unchecked) ==
  pickSelectedInputType(possibleInputTypes(types, simple), unchecked)

SelectInit ==
  /\ inputTypes \in CandidateLists
  /\ useSimpleInputs \in BOOLEAN
  /\ useUncheckedScalarInputs \in BOOLEAN
  /\ selectedInputType = NoInputType
  /\ selPc = "ready"

SelectIdle ==
  /\ inputTypes = <<>>
  /\ useSimpleInputs = FALSE
  /\ useUncheckedScalarInputs = FALSE
  /\ selectedInputType = NoInputType
  /\ selPc = "idle"

\* one call of selectInputTypeFromTypes(dmmfDocument)(inputTypes)
SelectInputType ==
  /\ selPc = "ready"
  /\ selectedInputType' =
       selectInputTypeFromTypes(inputTypes, useSimpleInputs, useUncheckedScalarInputs)
  /\ selPc' = "done"
  /\ UNCHANGED <<inputTypes, useSimpleInputs, useUncheckedScalarInputs>>

(***************************************************************************)
(* Claims about selectInputTypeFromTypes.  The claim's side is stated on   *)
(* the positions of the candidate list, independently of the operators     *)
(* above.                                                                  *)
(***************************************************************************)
ClaimCompound(it) ==
  /\ it.location = "inputObjectTypes"
  /\ \/ \E i \in 1..(Len(it.type) - 1) :
          it.type[i] = "Operations" /\ it.type[i + 1] = "Input"
     \/ \E i \in 1..(Len(it.type) - 2) :
          it.type[i] = "Create" /\ it.type[i + 1] = "Envelope" /\ it.type[i + 2] = "Input"
     \/ \E i \in 2..Len(it.type) : \E j \in (i + 2)..Len(it.type) :
          it.type[i] \in {"Create", "Update"} /\ it.type[j] = "Input"

ClaimObjectAt(i) ==
  /\ inputTypes[i].location = "inputObjectTypes"
  /\ (useSimpleInputs => ~ClaimCompound(inputTypes[i]))

MinOf(S) == CHOOSE i \in S : \A j \in S : i <= j

\* the claim's surviving positions, for a given reading of "scalar candidate"
ClaimSurvivors(ScalarAt(_)) ==
  LET all == DOMAIN inputTypes
      objs == { i \in all : ClaimObjectAt(i) }
      scalars == { i \in all : ScalarAt(i) }
      enums == { i \in all : inputTypes[i].location = "enumTypes" }
  IN IF objs # {} THEN objs
     ELSE IF scalars # {} THEN scalars
     ELSE IF enums # {} THEN enums
     ELSE all

\* the claim's choice among the surviving positions
ClaimChoice(S) ==
  LET lists == { i \in S : inputTypes[i].isList }
      unch == { i \in S : \E k \in DOMAIN inputTypes[i].type :
                              inputTypes[i].type[k] = "Unchecked" }
  IN IF lists # {} THEN MinOf(lists)
     ELSE IF useUncheckedScalarInputs /\ unch # {} THEN MinOf(unch)
     ELSE MinOf(S)

AnyScalarAt(i) == inputTypes[i].location = "scalar"

NonNullScalarAt(i) ==
  inputTypes[i].location = "scalar" /\ inputTypes[i].type # <<"Null">>

\* C3 as stated: the second tier is "the scalar candidates", Null included
C3_AsStated ==
  selPc = "done" =>
    selectedInputType = inputTypes[ClaimChoice(ClaimSurvivors(AnyScalarAt))]

\* C3 (amended): for every non-empty candidate list the surviving set is the
\* input-object candidates (minus the compound-operation denylist when
\* useSimpleInputs is on), else the scalar candidates other than Null, else the
\* enumeration candidates, else all candidates; the result is the first
\* list-typed survivor, else (useUncheckedScalarInputs on) the first survivor
\* whose type name contains "Unchecked", else the first survivor.
C3_SelectionRule ==
  selPc = "done" =>
    selectedInputType = inputTypes[ClaimChoice(ClaimSurvivors(NonNullScalarAt))]

\* a nullable enum argument: the Null scalar is passed over for the enum,
\* and a list preferred over an earlier non-list survivor has been seen
C3_Witness ==
  /\ selPc = "done"
  /\ inputTypes = << InputTypeRef("scalar", <<"Null">>, FALSE),
                     InputTypeRef("enumTypes", <<"Role">>, FALSE) >>
  /\ selectedInputType = InputTypeRef("enumTypes", <<"Role">>, FALSE)

\* C4 as stated: with useSimpleInputs on, no compound-operation candidate is
\* ever returned, whatever the candidate list
C4_AsStated ==
  (selPc = "done" /\ useSimpleInputs) => ~ClaimCompound(selectedInputType)

\* C4 (amended): with useSimpleInputs on, a compound-operation candidate is
\* returned only from the last-resort "all candidates" fallback, i.e. only when
\* the list holds no other input-object candidate, no scalar candidate other
\* than Null and no enumeration candidate; with the mode off, a list whose
\* input-object candidates are all compound yields a compound candidate.
C4_SimpleInputs ==
  selPc = "done" =>
    /\ (useSimpleInputs /\ ClaimCompound(selectedInputType)) =>
         \A i \in DOMAIN inputTypes :
           /\ inputTypes[i].location = "inputObjectTypes" => ClaimCompound(inputTypes[i])
           /\ ~NonNullScalarAt(i)
           /\ inputTypes[i].location # "enumTypes"
    /\ ( /\ ~useSimpleInputs
         /\ \E i \in DOMAIN inputTypes : inputTypes[i].location = "inputObjectTypes"
         /\ \A i \in DOMAIN inputTypes :
              inputTypes[i].location = "inputObjectTypes" => ClaimCompound(inputTypes[i]) )
        => ClaimCompound(selectedInputType)

\* simple inputs on, a scalar field with a "set"-style compound update input:
\* the plain scalar is chosen
C4_Witness ==
  /\ selPc = "done"
  /\ useSimpleInputs
  /\ inputTypes = << InputTypeRef("scalar", <<"String">>, FALSE),
                     InputTypeRef("inputObjectTypes",
                       <<"String", "Field", "Update", "Operations", "Input">>, FALSE) >>
  /\ selectedInputType = InputTypeRef("scalar", <<"String">>, FALSE)

\* simple inputs off, same list: the compound candidate is chosen
C4_WitnessModeOff ==
  /\ selPc = "done"
  /\ ~useSimpleInputs
  /\ \E i \in DOMAIN inputTypes : NonNullScalarAt(i)
  /\ ClaimCompound(selectedInputType)

(***************************************************************************)
(* generateRelationsResolverClassesFromModel: the identity filter of the   *)
(* relation resolver of one relation model.                                *)
(***************************************************************************)
VARIABLES
  relModel,       \* the model of the DMMF.RelationModel: fields, primaryKey, uniqueIndexes
  relationFields, \* the relation fields of the DMMF.RelationModel (field names)
  relResult       \* what the call did: status, error, sourceFileCreated, methods

relVars == <<relModel, relationFields, relResult>>

\* most relation fields of one relation model
MaxRelFields == 2

ModelField(name, isId, isUnique) ==
  [name |-> name, isId |-> isId, isUnique |-> isUnique]

\* a primary key or unique index; name Undefined when the schema declares none
KeyDef(name, fields) == [name |-> name, fields |-> fields]

\* model.primaryKey is null
NoKey == KeyDef(Undefined, <<>>)

FieldKinds == { <<FALSE, FALSE>>, <<TRUE, FALSE>>, <<FALSE, TRUE>> }

\* the fields a, b, c of the entity; a and b may be marked @id or @unique
RelModelFields ==
  { << ModelField("a", ka[1], ka[2]), ModelField("b", kb[1], kb[2]),
       ModelField("c", FALSE, FALSE) >> : ka \in FieldKinds, kb \in FieldKinds }

KeyNames == { Undefined, <<"pk">>, <<"uq">> }

\* "zz" is a field name the entity does not have
PrimaryKeys ==
  { [present |-> FALSE, key |-> NoKey] } \cup
  { [present |-> TRUE, key |-> KeyDef(n, f)] :
      n \in { Undefined, <<"pk">> }, f \in { <<"a", "b">>, <<"b", "c">>, <<"a", "zz">> } }

UniqueIndexLists ==
  { <<>> } \cup
  { <<KeyDef(n, f)>> :
      n \in { Undefined, <<"uq">> }, f \in { <<"b", "c">>, <<"c", "zz">> } } \cup
  { <<KeyDef(n, f), KeyDef(<<"other">>, <<"a", "c">>)>> :
      n \in { Undefined, <<"uq">> }, f \in { <<"b", "c">>, <<"c", "zz">> } }

RelModels ==
  { [fields |-> fs, primaryKey |-> pk, uniqueIndexes |-> ux] :
      fs \in RelModelFields, pk \in PrimaryKeys, ux \in UniqueIndexLists }

RelationFieldLists ==
  { SubSeq(<<"posts", "profile", "friends">>, 1, n) : n \in 1..MaxRelFields }

WhereCondition(kind, keyName, fields) ==
  [kind |-> kind, keyName |-> keyName, fields |-> fields]

RelResult(status, error, created, methods) ==
  [status |-> status, error |-> error, sourceFileCreated |-> created,
   methods |-> methods]

NoRelResult == RelResult("none", "", FALSE, <<>>)

\* names.join("_")
RECURSIVE joinUnderscore(_)
joinUnderscore(names) ==
  IF names = <<>> THEN <<>>
  ELSE IF Len(names) = 1 THEN <<names[1]>>
  ELSE <<names[1], "_">> \o joinUnderscore(Tail(names))

\* fieldsCache.get(name) is defined
hasField(model, name) == \E i \in DOMAIN model.fields : model.fields[i].name = name

\* the first field marked id, else the first field marked unique, else none
singleFilterField(model) ==
  LET isId(f) == f.isId
      isUnique(f) == f.isUnique
      ids == SelectSeq(model.fields, isId)
      uniques == SelectSeq(model.fields, isUnique)
  IN IF ids # <<>> THEN <<ids[1].name>>
     ELSE IF uniques # <<>> THEN <<uniques[1].name>>
     ELSE <<>>

\* model.primaryKey?.fields ... ?? []
compositeIdFields(model) ==
  IF model.primaryKey.present THEN model.primaryKey.key.fields ELSE <<>>

\* model.uniqueIndexes[0] ? model.uniqueIndexes[0].fields ... : []
compositeUniqueFields(model) ==
  IF model.uniqueIndexes # <<>> THEN model.uniqueIndexes[1].fields ELSE <<>>

compositeFilterFields(model) ==
  IF compositeIdFields(model) # <<>> THEN compositeIdFields(model)
  ELSE compositeUniqueFields(model)

\* model.primaryKey?.name ?? model.uniqueIndexes[0]?.name ?? fields.join("_")
filterKeyName(model) ==
  IF model.primaryKey.present /\ model.primaryKey.key.name # Undefined
    THEN model.primaryKey.key.name
  ELSE IF model.uniqueIndexes # <<>> /\ model.uniqueIndexes[1].name # Undefined
    THEN model.uniqueIndexes[1].name
  ELSE joinUnderscore(compositeFilterFields(model))

\* mutant: the composite key is preferred to the single id or unique field
whereCondition_compositeFirst(model) ==
  IF compositeFilterFields(model) # <<>>
    THEN WhereCondition("composite", filterKeyName(model), compositeFilterFields(model))
  ELSE IF singleFilterField(model) # <<>>
    THEN WhereCondition("single", Undefined, singleFilterField(model))
  ELSE WhereCondition("throw", Undefined, <<>>)

\* the where condition of one relation method, or "throw"
whereCondition(model) ==
  IF singleFilterField(model) # <<>>
    THEN WhereCondition("single", Undefined, singleFilterField(model))
  ELSE IF compositeFilterFields(model) # <<>>
    THEN WhereCondition("composite", filterKeyName(model), compositeFilterFields(model))
  ELSE WhereCondition("throw", Undefined, <<>>)

generateRelationsResolverClassesFromModel(model, relFields) ==
  IF \E i \in DOMAIN compositeIdFields(model) :
       ~hasField(model, compositeIdFields(model)[i])
    THEN RelResult("threw", "Primary key field not found", FALSE, <<>>)
  ELSE IF \E i \in DOMAIN compositeUniqueFields(model) :
       ~hasField(model, compositeUniqueFields(model)[i])
    THEN RelResult("threw", "Unique field not found", FALSE, <<>>)
  ELSE IF relFields # <<>> /\ whereCondition(model).kind = "throw"
    THEN RelResult("threw", "Unexpected error on whereConditionString", TRUE, <<>>)
  ELSE RelResult("generated", "", TRUE,
                 [i \in DOMAIN relFields |->
                    [name |-> relFields[i], where |-> whereCondition(model)]])

RelInit ==
  /\ relModel \in RelModels
  /\ relationFields \in RelationFieldLists
  /\ relResult = NoRelResult

RelIdle ==
  /\ relModel = [fields |-> <<>>, primaryKey |-> [present |-> FALSE, key |-> NoKey],
                 uniqueIndexes |-> <<>>]
  /\ relationFields = <<>>
  /\ relResult = NoRelResult

\* one call of generateRelationsResolverClassesFromModel for the relation model
GenerateRelationsResolver ==
  /\ relModel.fields # <<>>
  /\ relResult.status = "none"
  /\ relResult' = generateRelationsResolverClassesFromModel(relModel, relationFields)
  /\ UNCHANGED <<relModel, relationFields>>

(***************************************************************************)
(* Claims about the relation resolver's filter, stated on the raw model.   *)
(***************************************************************************)
ClaimIdNames == { i \in DOMAIN relModel.fields : relModel.fields[i].isId }

ClaimUniqueNames == { i \in DOMAIN relModel.fields : relModel.fields[i].isUnique }

ClaimHasSingle == ClaimIdNames # {} \/ ClaimUniqueNames # {}

ClaimSingleName ==
  IF ClaimIdNames # {} THEN relModel.fields[MinOf(ClaimIdNames)].name
  ELSE relModel.fields[MinOf(ClaimUniqueNames)].name

ClaimPkHasFields ==
  relModel.primaryKey.present /\ Len(relModel.primaryKey.key.fields) > 0

ClaimHasFirstIndex ==
  Len(relModel.uniqueIndexes) > 0 /\ Len(relModel.uniqueIndexes[1].fields) > 0

\* the key the composite filter is built from
ClaimUsedKey ==
  IF ClaimPkHasFields THEN relModel.primaryKey.key ELSE relModel.uniqueIndexes[1]

C5_WitnessThrow ==
  /\ relResult.status = "threw"
  /\ ~ClaimHasSingle /\ ~ClaimPkHasFields /\ ~ClaimHasFirstIndex

\* the composite case has been generated
C5_WitnessComposite ==
  /\ relResult.status = "generated"
  /\ ~ClaimHasSingle
  /\ relResult.methods[1].where.fields = <<"b", "c">>

\* C6: whenever the relation resolver uses a composite filter, the filter's key
\* name and field list come from the same key: the declared name of the key
\* whose fields are used (the primary key if it has fields, else the first
\* unique index), or the underscore-joined names of exactly those fields when
\* that key is unnamed.
C6_KeyNameOfUsedKey ==
  \A i \in DOMAIN relResult.methods :
    relResult.methods[i].where.kind = "composite" =>
      /\ relResult.methods[i].where.fields = ClaimUsedKey.fields
      /\ relResult.methods[i].where.keyName =
           IF ClaimUsedKey.name # Undefined THEN ClaimUsedKey.name
           ELSE joinUnderscore(ClaimUsedKey.fields)

(***************************************************************************)
(* DmmfDocument: the construction of the document from the raw DMMF, and   *)
(* getMappedOutputTypeName with its module-level cache.                    *)
(***************************************************************************)
VARIABLES
  datamodel,                 \* the raw models, datamodel.models.concat(datamodel.types)
  mappings,                  \* the raw mappings.modelOperations
  omitOutputFieldsByDefault, \* options.omitOutputFieldsByDefault (field names)
  docPc,                     \* the constructor's position
  models,                    \* this.models
  mapped,                    \* the result so far of the second models.map(...)
  modelsCache,               \* this.modelsCache: raw model name -> transformed model
  modelTypeNameCache,        \* this.modelTypeNameCache
  enums,                     \* this.enums
  outputTypes,               \* this.schema.outputTypes
  outputTypeCache,           \* this.outputTypeCache: raw name -> output type
  modelMappings,             \* this.modelMappings
  relationModels,            \* this.relationModels
  outputTypeNameCache,       \* transform.ts's module-level cache: name -> mapped name
  lastCall                   \* the last getMappedOutputTypeName calls made on the document

docVars == <<datamodel, mappings, omitOutputFieldsByDefault, docPc, models, mapped,
             modelsCache, modelTypeNameCache, enums, outputTypes, outputTypeCache,
             modelMappings, relationModels, outputTypeNameCache, lastCall>>

\* the empty Map
EmptyMap == [x \in {} |-> x]

\* map.set(key, value)
MapSet(map, key, value) ==
  [x \in DOMAIN map \cup {key} |-> IF x = key THEN value ELSE map[x]]

\* `${x}` of a name that may be undefined
Str(x) == IF x = Undefined THEN <<"undefined">> ELSE x

\* toUpperCase on the first letter of a word
upperFirst(word) ==
  CASE word = "post" -> "Post"
    [] word = "user" -> "User"
    [] word = "posts" -> "Posts"
    [] word = "users" -> "Users"
    [] OTHER -> word

\* toLocaleLowerCase of a word
lowerWord(word) ==
  CASE word = "Post" -> "post"
    [] word = "User" -> "user"
    [] word = "Client" -> "client"
    [] word = "Role" -> "role"
    [] OTHER -> word

toLocaleLowerCase(name) == [i \in DOMAIN name |-> lowerWord(name[i])]

\* helpers.ts pascalCase: the first letter in upper case
pascalCase(name) ==
  IF name = <<>> THEN name ELSE <<upperFirst(name[1])>> \o Tail(name)

ModelNames == { <<"User">>, <<"post">> }

\* the name given by /// @@TypeGraphQL.type(name: "..."), if any
Aliases == { Undefined, <<"Client">>, <<"Role">> }

RawField(name, kind, type, relationName, omitOutput) ==
  [name |-> name, kind |-> kind, type |-> type, relationName |-> relationName,
   omitOutput |-> omitOutput]

IdField == RawField(<<"id">>, "scalar", <<"Int">>, Undefined, "unset")

\* the relation field of a model: its target and its @TypeGraphQL.omit(output:)
RelField(target, omit) == RawField(<<"rel">>, "object", target, <<"Rel">>, omit)

\* outputShape: whether the schema has an output type of the model's name
\* ("none" if not), and whether that output type lists the relation field
RawModel(name, docName, fields, outputShape) ==
  [name |-> name, docName |-> docName, fields |-> fields, outputShape |-> outputShape]

\* a model without a relation field, or with one: listed by the output type
\* under each omit attribute, or not listed, or without an output type
RawModels(name, present) ==
  { RawModel(name, alias, <<IdField>>, "plain") : alias \in Aliases } \cup
  { RawModel(name, alias, <<IdField, RelField(target, omit)>>, "withRel") :
      alias \in Aliases, target \in present, omit \in { "unset", "true", "false" } } \cup
  { RawModel(name, alias, <<IdField, RelField(target, "unset")>>, shape) :
      alias \in Aliases, target \in present, shape \in { "none", "plain" } }

Datamodels ==
  { <<m>> : m \in UNION { RawModels(n, {n}) : n \in ModelNames } } \cup
  UNION { { <<m1, m2>> : m1 \in RawModels(pair[1], ModelNames),
                         m2 \in RawModels(pair[2], ModelNames) } :
          pair \in { p \in ModelNames \X ModelNames : p[1] # p[2] } }

RawOutputField(name, type, nArgs) == [name |-> name, type |-> type, nArgs |-> nArgs]

RawOutputType(name, fields) == [name |-> name, fields |-> fields]

\* the output types Prisma emits for a model
\* Prisma names a model's derived types after the capitalized model name
capitalize(name) == <<upperFirst(name[1])>> \o Tail(name)

RawOutputTypesOf(m) ==
  ( IF m.outputShape = "none" THEN <<>>
    ELSE << RawOutputType(m.name,
              IF m.outputShape = "withRel"
                THEN << RawOutputField(<<"id">>, <<"Int">>, 0),
                        RawOutputField(<<"rel">>, m.fields[2].type, 1) >>
                ELSE << RawOutputField(<<"id">>, <<"Int">>, 0) >>) >> )
  \o << RawOutputType(<<"Aggregate">> \o capitalize(m.name),
          << RawOutputField(<<"_count">>,
               capitalize(m.name) \o <<"Count", "Aggregate", "OutputType">>, 0) >>),
        RawOutputType(capitalize(m.name) \o <<"Count", "Aggregate", "OutputType">>,
          << RawOutputField(<<"id">>, <<"Int">>, 0) >>) >>

\* the root query field of a model's findMany action
FindManyField(m) == RawOutputField(<<"findMany">> \o capitalize(m.name), m.name, 1)

RECURSIVE ModelOutputTypes(_)
ModelOutputTypes(ms) ==
  IF ms = <<>> THEN <<>> ELSE RawOutputTypesOf(Head(ms)) \o ModelOutputTypes(Tail(ms))

\* schema.outputObjectTypes.prisma.concat(schema.outputObjectTypes.model)
RawOutputTypes(ms) ==
  << RawOutputType(<<"Query">>, [i \in DOMAIN ms |-> FindManyField(ms[i])]),
     RawOutputType(<<"Affected", "Rows", "Output">>,
                   << RawOutputField(<<"count">>, <<"Int">>, 0) >>) >>
  \o ModelOutputTypes(ms)

\* schema.enumTypes.prisma.concat(schema.enumTypes.model)
RawEnumTypes(ms) ==
  [i \in DOMAIN ms |-> capitalize(ms[i].name) \o <<"Scalar", "Field", "Enum">>]
  \o << <<"Role">> >>

RawMapping(model, findMany) == [model |-> model, findMany |-> findMany]

\* mappings.modelOperations: one mapping for each model
GoodMappings(ms) ==
  [i \in DOMAIN ms |->
     RawMapping(ms[i].name, <<"findMany">> \o capitalize(ms[i].name))]

\* the mappings Prisma emits, and mappings that name a model or a root field
\* the schema does not have
MappingLists(ms) ==
  { GoodMappings(ms),
    GoodMappings(ms) \o << RawMapping(<<"Ghost">>, <<"findMany", "Ghost">>) >>,
    << RawMapping(ms[1].name, <<"findMany", "Ghost">>) >> }

\* the part of a DmmfDocument that name resolution reads
Doc(ms, cache) == [models |-> ms, modelsCache |-> cache]

\* this.modelsCache.has(typeName)
isModelName(doc, typeName) == typeName \in DOMAIN doc.modelsCache

\* the cached model's typeName, else that of the first model of the same
\* name in lower case, else undefined
getModelTypeName(doc, modelName) ==
  IF modelName \in DOMAIN doc.modelsCache
    THEN doc.modelsCache[modelName].typeName
  ELSE LET sameLower(it) == toLocaleLowerCase(it.name) = toLocaleLowerCase(modelName)
           hits == SelectSeq(doc.models, sameLower)
       IN IF hits = <<>> THEN Undefined ELSE hits[1].typeName

\* attributeArgs.name ?? pascalCase(model.name), no fields yet
transformBareModel(model) ==
  [name |-> model.name,
   typeName |-> IF model.docName # Undefined THEN model.docName
                ELSE pascalCase(model.name),
   fields |-> <<>>]

\* omitFieldAttribute.output ?? omitOutputFieldsByDefault?.includes(name) ?? false
isOmittedOutput(field, omitByDefault) ==
  IF field.omitOutput = "true" THEN TRUE
  ELSE IF field.omitOutput = "false" THEN FALSE
  ELSE field.name \in Range(omitByDefault)

\* resolvedType is typeInfo.type, which fieldTSType and typeGraphQLType are made of
transformModelField(doc, field, omitByDefault) ==
  [name |-> field.name,
   kind |-> field.kind,
   type |-> field.type,
   relationName |-> field.relationName,
   resolvedType |-> IF isModelName(doc, field.type)
                      THEN getModelTypeName(doc, field.type)
                      ELSE field.type,
   isOmittedOutput |-> isOmittedOutput(field, omitByDefault)]

transformModelWithFields(doc, model, omitByDefault) ==
  [transformBareModel(model) EXCEPT
     !.fields = [j \in DOMAIN model.fields |->
                   transformModelField(doc, model.fields[j], omitByDefault)]]

ENUM_SUFFIXES ==
  << <<"OrderBy", "Relevance", "Field", "Enum">>, <<"Scalar", "Field", "Enum">> >>

\* typeName: the model's type name and the suffix, for a model-derived enum
transformEnums(doc, enumName) ==
  LET ends(suffix) == endsWith(enumName, suffix)
      detected == SelectSeq(ENUM_SUFFIXES, ends)
  IN IF detected = <<>> THEN [name |-> enumName, typeName |-> enumName]
     ELSE [name |-> enumName,
           typeName |->
             Str(getModelTypeName(doc,
                   SubSeq(enumName, 1, Len(enumName) - Len(detected[1]))))
             \o detected[1]]

DEDICATED_TYPE_SUFFIXES ==
  << <<"Count", "Aggregate", "OutputType">>,
     <<"Min", "Aggregate", "OutputType">>,
     <<"Max", "Aggregate", "OutputType">>,
     <<"Avg", "Aggregate", "OutputType">>,
     <<"Sum", "Aggregate", "OutputType">>,
     <<"GroupBy", "OutputType">>,
     <<"Count", "OutputType">> >>

\* the result getMappedOutputTypeName computes on a cache miss
mapOutputTypeName(doc, outputTypeName) ==
  LET ends(suffix) == endsWith(outputTypeName, suffix)
      dedicated == SelectSeq(DEDICATED_TYPE_SUFFIXES, ends)
  IN IF startsWith(outputTypeName, <<"Aggregate">>)
       THEN <<"Aggregate">> \o Str(getModelTypeName(doc, Tail(outputTypeName)))
     ELSE IF /\ startsWith(outputTypeName, <<"Create", "Many">>)
             /\ endsWith(outputTypeName, <<"And", "Return", "OutputType">>)
       THEN <<"Create", "Many", "And", "Return">>
            \o Str(getModelTypeName(doc,
                     SubSeq(outputTypeName, 3, Len(outputTypeName) - 3)))
     ELSE IF isModelName(doc, outputTypeName)
       THEN getModelTypeName(doc, outputTypeName)
     ELSE IF dedicated # <<>>
       THEN Str(getModelTypeName(doc,
                  SubSeq(outputTypeName, 1, Len(outputTypeName) - Len(dedicated[1]))))
            \o SubSeq(dedicated[1], 1, Len(dedicated[1]) - 1)
     ELSE outputTypeName

\* getMappedOutputTypeName: the cached value if there is one
getMappedOutputTypeName(doc, cache, outputTypeName) ==
  IF outputTypeName \in DOMAIN cache THEN cache[outputTypeName]
  ELSE mapOutputTypeName(doc, outputTypeName)

\* outputTypeNameCache after the call
cacheAfter(doc, cache, outputTypeName) ==
  MapSet(cache, outputTypeName, getMappedOutputTypeName(doc, cache, outputTypeName))

RECURSIVE cacheAfterAll(_, _, _)
cacheAfterAll(doc, cache, names) ==
  IF names = <<>> THEN cache
  ELSE cacheAfterAll(doc, cacheAfter(doc, cache, Head(names)), Tail(names))

\* the names transformOutputType maps, in call order: the type's, then its fields'
RECURSIVE namesMappedBy(_)
namesMappedBy(rawTypes) ==
  IF rawTypes = <<>> THEN <<>>
  ELSE <<Head(rawTypes).name>>
       \o [j \in DOMAIN Head(rawTypes).fields |-> Head(rawTypes).fields[j].type]
       \o namesMappedBy(Tail(rawTypes))

transformOutputType(doc, cache, outputType) ==
  [name |-> outputType.name,
   typeName |-> getMappedOutputTypeName(doc, cache, outputType.name),
   fields |-> [j \in DOMAIN outputType.fields |->
                 [name |-> outputType.fields[j].name,
                  type |-> getMappedOutputTypeName(doc, cache, outputType.fields[j].type),
                  nArgs |-> outputType.fields[j].nArgs]]]

RECURSIVE cacheOfOutputTypes(_)
cacheOfOutputTypes(types) ==
  IF types = <<>> THEN EmptyMap
  ELSE MapSet(cacheOfOutputTypes(SubSeq(types, 1, Len(types) - 1)),
              types[Len(types)].name, types[Len(types)])

hasOutputField(outputType, fieldName) ==
  \E j \in DOMAIN outputType.fields : outputType.fields[j].name = fieldName

\* findOutputTypeWithField(fieldName) is defined
someOutputTypeHasField(types, fieldName) ==
  \E i \in DOMAIN types : hasOutputField(types[i], fieldName)

\* mutant: an action of a field that no output type has is left out
mappingThrows_unknownModelOnly(doc, types, mapping) ==
  mapping.model \notin DOMAIN doc.modelsCache

\* transformMapping throws: the model or the root field is not in the document
mappingThrows(doc, types, mapping) ==
  \/ mapping.model \notin DOMAIN doc.modelsCache
  \/ ~someOutputTypeHasField(types, mapping.findMany)

transformMapping(doc, mapping) ==
  [modelName |-> mapping.model,
   modelTypeName |-> IF getModelTypeName(doc, mapping.model) # Undefined
                       THEN getModelTypeName(doc, mapping.model)
                       ELSE mapping.model,
   actions |-> << [kind |-> "findMany", fieldName |-> mapping.findMany] >>]

\* a field the relation model keeps: relation-typed, not output-omitted and
\* listed by the output type of the model's name
isRelationField(field, typeCache, modelName) ==
  /\ field.relationName # Undefined
  /\ ~field.isOmittedOutput
  /\ modelName \in DOMAIN typeCache
  /\ hasOutputField(typeCache[modelName], field.name)

\* mutant: the second filter, on the output type, is left out
isRelationModel_anyRelationField(model, typeCache) ==
  \E j \in DOMAIN model.fields :
    model.fields[j].relationName # Undefined /\ ~model.fields[j].isOmittedOutput

\* the two filters of the constructor
isRelationModel(model, typeCache) ==
  /\ \E j \in DOMAIN model.fields :
       model.fields[j].relationName # Undefined /\ ~model.fields[j].isOmittedOutput
  /\ model.name \in DOMAIN typeCache
  /\ \E k \in DOMAIN typeCache[model.name].fields :
       \E j \in DOMAIN model.fields :
         /\ model.fields[j].name = typeCache[model.name].fields[k].name
         /\ model.fields[j].relationName # Undefined
         /\ ~model.fields[j].isOmittedOutput

generateRelationModel(doc, typeCache, model) ==
  LET keep(field) == isRelationField(field, typeCache, model.name)
      kept == SelectSeq(model.fields, keep)
  IN [model |-> model,
      resolverName |-> model.typeName \o <<"Relations", "Resolver">>,
      relationFields |->
        [j \in DOMAIN kept |->
           [name |-> kept[j].name,
            type |-> getModelTypeName(doc, kept[j].type)]]]

NoCall == [name |-> <<>>, first |-> <<>>, second |-> <<>>, onResult |-> <<>>]

\* a raw schema handed to the constructor, which has not run yet
DocInit ==
  /\ datamodel \in Datamodels
  /\ mappings \in MappingLists(datamodel)
  /\ omitOutputFieldsByDefault \in { <<>>, << <<"rel">> >> }
  /\ docPc = "new"
  /\ models = <<>>
  /\ mapped = <<>>
  /\ modelsCache = EmptyMap
  /\ modelTypeNameCache = {}
  /\ enums = <<>>
  /\ outputTypes = <<>>
  /\ outputTypeCache = EmptyMap
  /\ modelMappings = <<>>
  /\ relationModels = <<>>
  /\ outputTypeNameCache = EmptyMap
  /\ lastCall = NoCall

\* no document is being built
DocIdle ==
  /\ datamodel = <<>>
  /\ mappings = <<>>
  /\ omitOutputFieldsByDefault = <<>>
  /\ docPc = "idle"
  /\ models = <<>>
  /\ mapped = <<>>
  /\ modelsCache = EmptyMap
  /\ modelTypeNameCache = {}
  /\ enums = <<>>
  /\ outputTypes = <<>>
  /\ outputTypeCache = EmptyMap
  /\ modelMappings = <<>>
  /\ relationModels = <<>>
  /\ outputTypeNameCache = EmptyMap
  /\ lastCall = NoCall

\* caches cleared, bare models, enums a first time
TransformBareModels ==
  /\ docPc = "new"
  /\ outputTypeNameCache' = EmptyMap
  /\ outputTypeCache' = EmptyMap
  /\ modelsCache' = EmptyMap
  /\ modelTypeNameCache' = {}
  /\ models' = [i \in DOMAIN datamodel |-> transformBareModel(datamodel[i])]
  /\ enums' = [i \in DOMAIN RawEnumTypes(datamodel) |->
                 transformEnums(Doc(models', modelsCache'), RawEnumTypes(datamodel)[i])]
  /\ docPc' = "fields"
  /\ UNCHANGED <<datamodel, mappings, omitOutputFieldsByDefault, mapped, outputTypes,
                 modelMappings, relationModels, lastCall>>

\* one iteration of the second models.map: the model is transformed against
\* the caches as they are, then cached; this.models is assigned after the last
TransformModelWithFields ==
  /\ docPc = "fields"
  /\ Len(mapped) < Len(datamodel)
  /\ LET model == datamodel[Len(mapped) + 1]
         transformed == transformModelWithFields(Doc(models, modelsCache), model,
                                                 omitOutputFieldsByDefault)
     IN /\ modelsCache' = MapSet(modelsCache, model.name, transformed)
        /\ modelTypeNameCache' = modelTypeNameCache \cup {transformed.typeName}
        /\ mapped' = Append(mapped, transformed)
        /\ IF Len(mapped') = Len(datamodel)
             THEN models' = mapped' /\ docPc' = "schema"
             ELSE UNCHANGED <<models, docPc>>
  /\ UNCHANGED <<datamodel, mappings, omitOutputFieldsByDefault, enums, outputTypes,
                 outputTypeCache, modelMappings, relationModels, outputTypeNameCache,
                 lastCall>>

\* enums a second time, transformSchema, the output type cache
TransformSchema ==
  /\ docPc = "schema"
  /\ LET doc == Doc(models, modelsCache)
         raw == RawOutputTypes(datamodel)
         cache == cacheAfterAll(doc, outputTypeNameCache, namesMappedBy(raw))
     IN /\ enums' = [i \in DOMAIN RawEnumTypes(datamodel) |->
                       transformEnums(doc, RawEnumTypes(datamodel)[i])]
        /\ outputTypes' = [i \in DOMAIN raw |-> transformOutputType(doc, cache, raw[i])]
        /\ outputTypeNameCache' = cache
        /\ outputTypeCache' = cacheOfOutputTypes(outputTypes')
  /\ docPc' = "mappings"
  /\ UNCHANGED <<datamodel, mappings, omitOutputFieldsByDefault, models, mapped,
                 modelsCache, modelTypeNameCache, modelMappings, relationModels, lastCall>>

\* transformMappings: the constructor throws on the first mapping that does
TransformMappings ==
  /\ docPc = "mappings"
  /\ LET doc == Doc(models, modelsCache)
     IN IF \E i \in DOMAIN mappings : mappingThrows(doc, outputTypes, mappings[i])
          THEN docPc' = "threw" /\ UNCHANGED modelMappings
          ELSE /\ docPc' = "relations"
               /\ modelMappings' = [i \in DOMAIN mappings |->
                                      transformMapping(doc, mappings[i])]
  /\ UNCHANGED <<datamodel, mappings, omitOutputFieldsByDefault, models, mapped,
                 modelsCache, modelTypeNameCache, enums, outputTypes, outputTypeCache,
                 relationModels, outputTypeNameCache, lastCall>>

\* the relation models, last; the constructor returns
DeriveRelationModels ==
  /\ docPc = "relations"
  /\ LET keep(model) == isRelationModel(model, outputTypeCache)
         kept == SelectSeq(models, keep)
     IN relationModels' = [i \in DOMAIN kept |->
          generateRelationModel(Doc(models, modelsCache), outputTypeCache, kept[i])]
  /\ docPc' = "constructed"
  /\ UNCHANGED <<datamodel, mappings, omitOutputFieldsByDefault, models, mapped,
                 modelsCache, modelTypeNameCache, enums, outputTypes, outputTypeCache,
                 modelMappings, outputTypeNameCache, lastCall>>

\* a caller maps a raw output type name twice, then maps the result
CallGetMappedOutputTypeName ==
  /\ docPc = "constructed"
  /\ lastCall = NoCall
  /\ \E i \in DOMAIN outputTypes :
       LET doc == Doc(models, modelsCache)
           n == outputTypes[i].name
           first == getMappedOutputTypeName(doc, outputTypeNameCache, n)
           cache1 == cacheAfter(doc, outputTypeNameCache, n)
           second == getMappedOutputTypeName(doc, cache1, n)
           cache2 == cacheAfter(doc, cache1, n)
           onResult == getMappedOutputTypeName(doc, cache2, first)
       IN /\ lastCall' = [name |-> n, first |-> first, second |-> second,
                          onResult |-> onResult]
          /\ outputTypeNameCache' = cacheAfter(doc, cache2, first)
  /\ UNCHANGED <<datamodel, mappings, omitOutputFieldsByDefault, docPc, models, mapped,
                 modelsCache, modelTypeNameCache, enums, outputTypes, outputTypeCache,
                 modelMappings, relationModels>>

(***************************************************************************)
(* Claims about the constructed document, read off the raw schema.         *)
(***************************************************************************)
ClaimOmitted(field) ==
  \/ field.omitOutput = "true"
  \/ field.omitOutput = "unset" /\ field.name \in Range(omitOutputFieldsByDefault)

\* the names of the fields the raw output type of that name lists
ClaimOutputFieldNames(name) ==
  LET raw == RawOutputTypes(datamodel)
  IN UNION { { raw[i].fields[j].name : j \in DOMAIN raw[i].fields } :
             i \in { k \in DOMAIN raw : raw[k].name = name } }

ClaimQualifyingFields(model) ==
  { model.fields[j].name :
      j \in { k \in DOMAIN model.fields :
                /\ model.fields[k].kind = "object"
                /\ ~ClaimOmitted(model.fields[k])
                /\ model.fields[k].name \in ClaimOutputFieldNames(model.name) } }

ClaimEntriesOf(name) ==
  { k \in DOMAIN relationModels : relationModels[k].model.name = name }

ClaimFieldNamesOf(entry) ==
  { entry.relationFields[j].name : j \in DOMAIN entry.relationFields }

\* C7: a constructed document has exactly one relation model for each model
\* with a relation-typed field that is not output-omitted and is listed by
\* the model's output type, none for any other model, and each relation
\* model's relationFields are exactly those fields of its model
C7_RelationModels ==
  docPc = "constructed" =>
    /\ \A i \in DOMAIN datamodel :
         IF ClaimQualifyingFields(datamodel[i]) = {}
           THEN ClaimEntriesOf(datamodel[i].name) = {}
           ELSE Cardinality(ClaimEntriesOf(datamodel[i].name)) = 1
    /\ \A k \in DOMAIN relationModels :
         \E i \in DOMAIN datamodel :
           /\ datamodel[i].name = relationModels[k].model.name
           /\ ClaimFieldNamesOf(relationModels[k]) = ClaimQualifyingFields(datamodel[i])
           /\ Len(relationModels[k].relationFields)
                = Cardinality(ClaimQualifyingFields(datamodel[i]))
           /\ relationModels[k].relationFields # <<>>

\* two models with a relation field, one of them kept out by the omission
C7_Witness ==
  /\ docPc = "constructed"
  /\ Len(datamodel) = 2
  /\ \A i \in DOMAIN datamodel : Len(datamodel[i].fields) = 2
  /\ Len(relationModels) = 1
  /\ \E i \in DOMAIN datamodel : ClaimOmitted(datamodel[i].fields[2])

\* a model whose relation field the output type does not list
C7_WitnessNotListed ==
  /\ docPc = "constructed"
  /\ \E i \in DOMAIN datamodel :
       /\ Len(datamodel[i].fields) = 2
       /\ datamodel[i].outputShape = "plain"
       /\ ClaimEntriesOf(datamodel[i].name) = {}

\* the display name of the raw model of that name
ClaimTypeName(name) ==
  LET i == CHOOSE k \in DOMAIN datamodel : datamodel[k].name = name
  IN IF datamodel[i].docName # Undefined THEN datamodel[i].docName
     ELSE pascalCase(datamodel[i].name)

\* C8: once the fields of the models are resolved, every relation-typed
\* field's resolved type is the display name of its target model, wherever
\* the target stands in the raw datamodel
C8_AsStated ==
  docPc \in { "schema", "mappings", "relations", "constructed" } =>
    \A i \in DOMAIN models : \A j \in DOMAIN models[i].fields :
      models[i].fields[j].kind = "object" =>
        models[i].fields[j].resolvedType = ClaimTypeName(models[i].fields[j].type)

\* C9: in a constructed document no two models share a typeName, and no
\* model's typeName is that of an enumeration or of a non-model output type
C9_AsStated ==
  docPc = "constructed" =>
    /\ \A i, j \in DOMAIN models :
         i # j => models[i].typeName # models[j].typeName
    /\ \A i \in DOMAIN models : \A e \in DOMAIN enums :
         models[i].typeName # enums[e].typeName
    /\ \A i \in DOMAIN models : \A o \in DOMAIN outputTypes :
         (\A k \in DOMAIN datamodel : datamodel[k].name # outputTypes[o].name)
           => models[i].typeName # outputTypes[o].typeName

\* C10: mapping a raw output type name again gives the same result, and
\* mapping the result gives the result
C10_AsStated ==
  lastCall # NoCall =>
    /\ lastCall.second = lastCall.first
    /\ lastCall.onResult = lastCall.first

(***************************************************************************)
(* Several documents in one process.  outputTypeNameCache is one map of    *)
(* the module: every constructor clears it, every document reads and       *)
(* fills it.                                                               *)
(***************************************************************************)
VARIABLES documents, sharedOutputTypeNameCache, lookup

cacheVars == <<documents, sharedOutputTypeNameCache, lookup>>

MaxDocuments == 2

NoLookup == [document |-> 0, name |-> <<>>, result |-> <<>>]

\* the second models.map of the constructor from its k-th model on: the
\* modelsCache it leaves
RECURSIVE modelsCacheFrom(_, _, _, _, _)
modelsCacheFrom(rawModels, bare, cache, omitByDefault, k) ==
  IF k > Len(rawModels) THEN cache
  ELSE modelsCacheFrom(rawModels, bare,
         MapSet(cache, rawModels[k].name,
                transformModelWithFields(Doc(bare, cache), rawModels[k], omitByDefault)),
         omitByDefault, k + 1)

\* the models and the modelsCache of a constructed document
constructedDocument(rawModels, omitByDefault) ==
  LET bare == [i \in DOMAIN rawModels |-> transformBareModel(rawModels[i])]
      cache == modelsCacheFrom(rawModels, bare, EmptyMap, omitByDefault, 1)
  IN [datamodel |-> rawModels,
      models |-> [i \in DOMAIN rawModels |-> cache[rawModels[i].name]],
      modelsCache |-> cache]

\* the cache as the constructor leaves it: cleared, then filled by transformSchema
cacheAfterConstruction(document) ==
  cacheAfterAll(Doc(document.models, document.modelsCache), EmptyMap,
                namesMappedBy(RawOutputTypes(document.datamodel)))

\* the schemas of the runs: the model User under each alias
RunDatamodels == { <<RawModel(<<"User">>, alias, <<IdField>>, "plain")>> : alias \in Aliases }

CacheInit ==
  /\ documents = <<>>
  /\ sharedOutputTypeNameCache = EmptyMap
  /\ lookup = NoLookup

CacheIdle ==
  /\ documents = <<>>
  /\ sharedOutputTypeNameCache = EmptyMap
  /\ lookup = NoLookup

\* new DmmfDocument(dmmf, options)
ConstructDocument ==
  /\ Len(documents) < MaxDocuments
  /\ \E rawModels \in RunDatamodels :
       LET document == constructedDocument(rawModels, <<>>)
       IN /\ documents' = Append(documents, document)
          /\ sharedOutputTypeNameCache' = cacheAfterConstruction(document)
  /\ UNCHANGED lookup

\* getMappedOutputTypeName(document, name) with any document constructed so far
LookupOutputTypeName ==
  /\ \E d \in DOMAIN documents :
       \E i \in DOMAIN RawOutputTypes(documents[d].datamodel) :
         LET doc == Doc(documents[d].models, documents[d].modelsCache)
             name == RawOutputTypes(documents[d].datamodel)[i].name
         IN /\ lookup' = [document |-> d, name |-> name,
                          result |-> getMappedOutputTypeName(
                                       doc, sharedOutputTypeNameCache, name)]
            /\ sharedOutputTypeNameCache' =
                 cacheAfter(doc, sharedOutputTypeNameCache, name)
  /\ UNCHANGED documents

\* C11: the value returned for a document and a raw output type name is the
\* value computed from that document's own models, whichever documents were
\* constructed before or after it
C11_AsStated ==
  lookup # NoLookup =>
    lookup.result =
      mapOutputTypeName(Doc(documents[lookup.document].models,
                            documents[lookup.document].modelsCache), lookup.name)

(***************************************************************************)
(* One run of the generator: prisma-generator's generate, generateCode,    *)
(* CodeGenerator.generate and BlockGeneratorFactory.generateAllBlocks.     *)
(* A step ends at an await; a step that may reject either returns or       *)
(* throws, and a throw outside the formatting try block ends the run.      *)
(***************************************************************************)
VARIABLES emitDMMF, emitTranspiledCode, outputDirInNodeModules, formatGeneratedCode,
          configEmitOnly, dmmfMappings, pc, failure, phases, started, completed,
          running, auxiliaryFiles, dmmfFiles, persistCalls, persistedBy, formatter,
          formatting, emittedMetrics, warnings, onCompleteCalled

pipeVars == <<emitDMMF, emitTranspiledCode, outputDirInNodeModules, formatGeneratedCode,
              configEmitOnly, dmmfMappings, pc, failure, phases, started, completed,
              running, auxiliaryFiles, dmmfFiles, persistCalls, persistedBy, formatter,
              formatting, emittedMetrics, warnings, onCompleteCalled>>

\* what the run leaves alone while it parses and builds
pipeInputs == <<emitDMMF, emitTranspiledCode, outputDirInNodeModules,
                formatGeneratedCode, configEmitOnly, dmmfMappings>>

\* mutant: the order in which the factory registers the generators
blockOrder_asRegistered ==
  <<"enums", "models", "inputs", "outputs", "relationResolvers", "crudResolvers">>

blockOrder ==
  <<"enums", "models", "outputs", "inputs", "relationResolvers", "crudResolvers">>

ALL_EMIT_BLOCK_KINDS ==
  { "enums", "models", "outputs", "inputs", "relationResolvers", "crudResolvers" }

\* parseStringArray(value, "emitOnly", ALL_EMIT_BLOCK_KINDS) throws
parseStringArrayThrows(option, allowedValues) ==
  option.given /\ \E i \in DOMAIN option.values : option.values[i] \notin allowedValues

\* parseStringBoolean(value): a boolean for "true" and "false"
parseStringBoolean(value) == IF value \in { "true", "false" } THEN value ELSE "undefined"

\* parseStringEnum(value, "formatGeneratedCode", allowedValues) throws
parseStringEnumThrows(value, allowedValues) ==
  value # "undefined" /\ value \notin allowedValues

\* the object literal of externalConfig throws
configThrows(emitOnlyOption, formatOption) ==
  \/ parseStringArrayThrows(emitOnlyOption, ALL_EMIT_BLOCK_KINDS)
  \/ /\ parseStringBoolean(formatOption) = "undefined"
     /\ parseStringEnumThrows(formatOption, { "prettier", "tsc" })

\* mutant: the DMMF files are written before the configuration is parsed
mayWriteDMMF_beforeConfig(at) == at \in { "dmmfReady", "configParsed" }

\* the DMMF files are written after externalConfig has been built
mayWriteDMMF(at) == at = "configParsed"

\* false: none; undefined and true: tsc; else the formatter named
resolveFormatGeneratedCodeOption(formatOption) ==
  IF formatOption = "false" THEN "undefined"
  ELSE IF formatOption = "undefined" THEN "tsc"
  ELSE IF formatOption = "true" THEN "tsc"
  ELSE formatOption

\* mutant: inside node_modules the code is transpiled whatever the option
resolveEmitTranspiledCode_orNodeModules(option, inNodeModules) ==
  option = "true" \/ inNodeModules

\* options.emitTranspiledCode ?? options.outputDirPath.includes("node_modules")
resolveEmitTranspiledCode(option, inNodeModules) ==
  IF option = "undefined" THEN inNodeModules ELSE option = "true"

\* the schema of the run: the model User, and the mappings Prisma emits for
\* it or mappings that name a model or a root field the schema does not have
PipeDatamodel == << RawModel(<<"User">>, Undefined, <<IdField>>, "plain") >>

\* new DmmfDocument(dmmf, options) throws in transformMappings
constructorThrows(rawModels, rawMappings) ==
  LET document == constructedDocument(rawModels, <<>>)
      doc == Doc(document.models, document.modelsCache)
      raw == RawOutputTypes(rawModels)
      cache == cacheAfterConstruction(document)
      types == [i \in DOMAIN raw |-> transformOutputType(doc, cache, raw[i])]
  IN \E i \in DOMAIN rawMappings : mappingThrows(doc, types, rawMappings[i])

\* mutant: generateAllBlocks called as soon as the options are known
mayGenerateBlocks_beforeDocument(at) == at \in { "configured", "documentBuilt" }

\* generateAllBlocks is called after new DmmfDocument has returned
mayGenerateBlocks(at) == at = "documentBuilt"

\* the metric of the formatter that ran
formatterMetric(name) ==
  CASE name = "tsc" -> "tsc-formatting"
    [] name = "prettier" -> "prettier-formatting"
    [] OTHER -> "biome-formatting"

\* mutant: the error of the formatter is thrown again
afterFormatting_rethrow(outcome) == IF outcome = "failed" THEN "failed" ELSE "finishing"

\* try { ... } catch (error) { log(...) }: the run goes on either way
afterFormatting(outcome) == "finishing"

PipeInit ==
  /\ emitDMMF \in BOOLEAN
  /\ emitTranspiledCode \in { "undefined", "true", "false" }
  /\ outputDirInNodeModules \in BOOLEAN
  /\ formatGeneratedCode \in { "undefined", "false", "true", "tsc", "prettier", "biome" }
  /\ configEmitOnly \in { [given |-> FALSE, values |-> <<>>],
                          [given |-> TRUE, values |-> <<"enums", "models">>],
                          [given |-> TRUE, values |-> <<"enums", "resolvers">>] }
  /\ dmmfMappings \in MappingLists(PipeDatamodel)
  /\ pc = "start"
  /\ failure = "none"
  /\ phases = <<>>
  /\ started = <<>>
  /\ completed = <<>>
  /\ running = "none"
  /\ auxiliaryFiles = <<>>
  /\ dmmfFiles = FALSE
  /\ persistCalls = <<>>
  /\ persistedBy = "none"
  /\ formatter = "none"
  /\ formatting = "none"
  /\ emittedMetrics = <<>>
  /\ warnings = <<>>
  /\ onCompleteCalled = FALSE

\* no run
PipeIdle ==
  /\ emitDMMF = FALSE
  /\ emitTranspiledCode = "undefined"
  /\ outputDirInNodeModules = FALSE
  /\ formatGeneratedCode = "undefined"
  /\ configEmitOnly = [given |-> FALSE, values |-> <<>>]
  /\ dmmfMappings = <<>>
  /\ pc = "idle"
  /\ failure = "none"
  /\ phases = <<>>
  /\ started = <<>>
  /\ completed = <<>>
  /\ running = "none"
  /\ auxiliaryFiles = <<>>
  /\ dmmfFiles = FALSE
  /\ persistCalls = <<>>
  /\ persistedBy = "none"
  /\ formatter = "none"
  /\ formatting = "none"
  /\ emittedMetrics = <<>>
  /\ warnings = <<>>
  /\ onCompleteCalled = FALSE

\* await mkdir(outputDir), await removeDir(outputDir, true)
SetupDirectory ==
  /\ pc = "start"
  /\ \/ pc' = "directoryReady" /\ phases' = Append(phases, "directory")
          /\ UNCHANGED failure
     \/ pc' = "failed" /\ failure' = "directory" /\ UNCHANGED phases
  /\ UNCHANGED <<pipeInputs, started, completed, running, auxiliaryFiles, dmmfFiles,
                 persistCalls, persistedBy, formatter, formatting, emittedMetrics, warnings,
                 onCompleteCalled>>

\* await getDMMF(...)
GetDMMF ==
  /\ pc = "directoryReady"
  /\ \/ pc' = "dmmfReady" /\ UNCHANGED failure
     \/ pc' = "failed" /\ failure' = "dmmf"
  /\ UNCHANGED <<pipeInputs, phases, started, completed, running, auxiliaryFiles,
                 dmmfFiles, persistCalls, persistedBy, formatter, formatting, emittedMetrics,
                 warnings, onCompleteCalled>>

\* const externalConfig = { ... }: the options are parsed, an invalid value throws
ParseConfig ==
  /\ pc = "dmmfReady"
  /\ IF configThrows(configEmitOnly, formatGeneratedCode)
       THEN pc' = "failed" /\ failure' = "config"
       ELSE pc' = "configParsed" /\ UNCHANGED failure
  /\ UNCHANGED <<pipeInputs, phases, started, completed, running, auxiliaryFiles,
                 dmmfFiles, persistCalls, persistedBy, formatter, formatting, emittedMetrics,
                 warnings, onCompleteCalled>>

\* if (externalConfig.emitDMMF) await Promise.all([writeFile, writeFile])
WriteDMMF ==
  /\ mayWriteDMMF(pc)
  /\ IF emitDMMF
       THEN \/ pc' = "configured" /\ dmmfFiles' = TRUE /\ UNCHANGED failure
            \/ pc' = "failed" /\ failure' = "dmmfWrite" /\ dmmfFiles' \in BOOLEAN
       ELSE pc' = "configured" /\ UNCHANGED <<failure, dmmfFiles>>
  /\ UNCHANGED <<pipeInputs, phases, started, completed, running, auxiliaryFiles,
                 persistCalls, persistedBy, formatter, formatting, emittedMetrics, warnings,
                 onCompleteCalled>>

\* generateCode: ensureInstalledCorrectPrismaPackage, the options, then
\* new DmmfDocument(dmmf, options)
BuildDmmfDocument ==
  /\ pc = "configured"
  /\ \/ /\ ~constructorThrows(PipeDatamodel, dmmfMappings)
        /\ pc' = "documentBuilt"
        /\ phases' = Append(phases, "document")
        /\ emittedMetrics' = Append(emittedMetrics, "dmmf-document-creation")
        /\ UNCHANGED failure
     \/ /\ constructorThrows(PipeDatamodel, dmmfMappings)
        /\ pc' = "failed" /\ failure' = "document"
        /\ UNCHANGED <<phases, emittedMetrics>>
     \/ /\ pc' = "failed" /\ failure' = "prismaPackage"
        /\ UNCHANGED <<phases, emittedMetrics>>
  /\ UNCHANGED <<pipeInputs, started, completed, running, auxiliaryFiles, dmmfFiles,
                 persistCalls, persistedBy, formatter, formatting, warnings,
                 onCompleteCalled>>

\* the loop of generateAllBlocks calls generator.generate() of the next block
StartBlock ==
  /\ mayGenerateBlocks(pc)
  /\ running = "none"
  /\ Len(started) < Len(blockOrder)
  /\ started' = Append(started, blockOrder[Len(started) + 1])
  /\ running' = blockOrder[Len(started) + 1]
  /\ UNCHANGED <<pipeInputs, pc, failure, phases, completed, auxiliaryFiles, dmmfFiles,
                 persistCalls, persistedBy, formatter, formatting, emittedMetrics, warnings,
                 onCompleteCalled>>

\* the awaited generate() returns its metrics, or throws; after the last
\* block generateAllBlocks returns
CompleteBlock ==
  /\ running # "none"
  /\ running' = "none"
  /\ \/ /\ completed' = Append(completed, running)
        /\ IF Len(completed') = Len(blockOrder)
             THEN pc' = "blocksGenerated" /\ phases' = Append(phases, "blocks")
             ELSE UNCHANGED <<pc, phases>>
        /\ UNCHANGED failure
     \/ pc' = "failed" /\ failure' = "block" /\ UNCHANGED <<completed, phases>>
  /\ UNCHANGED <<pipeInputs, started, auxiliaryFiles, dmmfFiles, persistCalls,
                 persistedBy, formatter, formatting, emittedMetrics, warnings,
                 onCompleteCalled>>

\* enhance.ts, scalars.ts, helpers.ts, index.ts, then emit() or save() is called
GenerateAuxiliaryFiles ==
  /\ pc = "blocksGenerated"
  /\ auxiliaryFiles' = <<"enhance", "scalars", "helpers", "index">>
  /\ phases' = Append(phases, "auxiliary")
  /\ emittedMetrics' = Append(emittedMetrics, "auxiliary-files")
  /\ persistedBy' = IF resolveEmitTranspiledCode(emitTranspiledCode,
                                                 outputDirInNodeModules)
                      THEN "emit" ELSE "save"
  /\ persistCalls' = Append(persistCalls, persistedBy')
  /\ pc' = "persisting"
  /\ UNCHANGED <<pipeInputs, failure, started, completed, running, dmmfFiles, formatter,
                 formatting, warnings, onCompleteCalled>>

\* the awaited project.emit() or project.save() returns, or throws; the
\* formatter, if there is one, is started
CompletePersist ==
  /\ pc = "persisting"
  /\ \/ /\ phases' = Append(phases, "persisted")
              \o ( IF resolveFormatGeneratedCodeOption(formatGeneratedCode) # "undefined"
                     THEN <<"formatting">> ELSE <<>> )
        /\ emittedMetrics' = IF persistedBy = "save"
                               THEN Append(emittedMetrics, "save-files")
                               ELSE emittedMetrics
        /\ IF resolveFormatGeneratedCodeOption(formatGeneratedCode) # "undefined"
             THEN /\ pc' = "formatting"
                  /\ formatter' = resolveFormatGeneratedCodeOption(formatGeneratedCode)
             ELSE pc' = "finishing" /\ UNCHANGED formatter
        /\ UNCHANGED failure
     \/ /\ pc' = "failed" /\ failure' = "persist"
        /\ UNCHANGED <<phases, formatter, emittedMetrics>>
  /\ UNCHANGED <<pipeInputs, started, completed, running, auxiliaryFiles, dmmfFiles,
                 persistCalls, persistedBy, formatting, warnings, onCompleteCalled>>

\* the awaited formatter returns, or throws into the catch that only logs
CompleteFormatting ==
  /\ pc = "formatting"
  /\ \E outcome \in { "ok", "failed" } :
       /\ formatting' = outcome
       /\ pc' = afterFormatting(outcome)
       /\ failure' = IF pc' = "failed" THEN "formatting" ELSE failure
       /\ IF outcome = "ok"
            THEN /\ emittedMetrics' =
                      emittedMetrics \o << formatterMetric(formatter), "code-formatting" >>
                 /\ UNCHANGED warnings
            ELSE /\ warnings' = Append(warnings, "Code formatting failed")
                 /\ UNCHANGED emittedMetrics
  /\ UNCHANGED <<pipeInputs, phases, started, completed, running, auxiliaryFiles,
                 dmmfFiles, persistCalls, persistedBy, formatter, onCompleteCalled>>

\* the last metrics and this.metrics?.onComplete?.()
Complete ==
  /\ pc = "finishing"
  /\ phases' = Append(phases, "complete")
  /\ emittedMetrics' = emittedMetrics \o << "code-emission", "total-generation" >>
  /\ onCompleteCalled' = TRUE
  /\ pc' = "done"
  /\ UNCHANGED <<pipeInputs, failure, started, completed, running, auxiliaryFiles,
                 dmmfFiles, persistCalls, persistedBy, formatter, formatting, warnings>>

(***************************************************************************)
(* Claims about the order of a run.                                        *)
(***************************************************************************)
ClaimBlockOrder ==
  <<"enums", "models", "outputs", "inputs", "relationResolvers", "crudResolvers">>

ClaimPrefix(s, t) == Len(s) <= Len(t) /\ s = SubSeq(t, 1, Len(s))

\* C1: generateAllBlocks calls generate() of enums, models, outputs, inputs,
\* relationResolvers, crudResolvers in that order, never one before the
\* previous one has completed, and has called and completed each exactly
\* once when it returns
C1_BlockOrder ==
  /\ ClaimPrefix(started, ClaimBlockOrder)
  /\ ClaimPrefix(completed, started)
  /\ Len(started) <= Len(completed) + 1
  /\ running # "none" => Len(started) = Len(completed) + 1 /\ running = started[Len(started)]
  /\ pc \in { "blocksGenerated", "persisting", "formatting", "finishing", "done" }
       => started = ClaimBlockOrder /\ completed = ClaimBlockOrder

\* all six blocks generated, the asynchronous crudResolvers one last
C1_Witness ==
  /\ pc = "blocksGenerated"
  /\ completed = ClaimBlockOrder
  /\ running = "none"

\* the crudResolvers block in flight, the five before it completed
C1_WitnessInFlight ==
  /\ running = "crudResolvers"
  /\ Len(completed) = 5

ClaimPhaseOrder ==
  <<"directory", "document", "blocks", "auxiliary", "persisted", "complete">>

ClaimNotFormatting(phase) == phase # "formatting"

\* C2: the phases of a run occur in the order directory recreated, document
\* built, blocks generated, auxiliary files created, files persisted,
\* formatting if any, completion; no block generator starts before the
\* document is built, the auxiliary files follow the six blocks, and the
\* formatter starts only after persistence has completed
C2_PhaseOrder ==
  /\ ClaimPrefix(SelectSeq(phases, ClaimNotFormatting), ClaimPhaseOrder)
  /\ \A i \in DOMAIN phases :
       phases[i] = "formatting" => i > 1 /\ phases[i - 1] = "persisted"
  /\ started # <<>> => \E i \in DOMAIN phases : phases[i] = "document"
  /\ auxiliaryFiles # <<>> => Len(completed) = 6
  /\ persistedBy # "none" => auxiliaryFiles = <<"enhance", "scalars", "helpers", "index">>
  /\ formatter # "none" =>
       /\ persistedBy # "none"
       /\ \E i \in DOMAIN phases : phases[i] = "persisted"
  /\ pc = "done" => SelectSeq(phases, ClaimNotFormatting) = ClaimPhaseOrder

\* a run to the end that transpiled and formatted
C2_Witness ==
  /\ pc = "done"
  /\ persistedBy = "emit"
  /\ formatter = "prettier"
  /\ Len(phases) = 7

\* a run to the end that saved and did not format
C2_WitnessNoFormatting ==
  /\ pc = "done"
  /\ persistedBy = "save"
  /\ formatter = "none"
  /\ Len(phases) = 6

(***************************************************************************)
(* The block generators, run by generateAllBlocks over a constructed       *)
(* document: the files each creates, the categories those files import     *)
(* from, the metrics each reports and the observer calls.                  *)
(***************************************************************************)
VARIABLES emitOnly, entity, inputTypeNames, blockPc, generated, reported, files,
          imports, observed, blockMetrics

blockVars == <<emitOnly, entity, inputTypeNames, blockPc, generated, reported, files,
               imports, observed, blockMetrics>>

\* the emitOnly option: not given, or the categories it lists
EmitOnlyOptions ==
  { [given |-> FALSE, kinds |-> {}] } \cup
  { [given |-> TRUE, kinds |-> kinds] : kinds \in SUBSET ALL_EMIT_BLOCK_KINDS \ { {} } }

\* the categories of emitOnly, all of them when it is not given
getBlocksToEmit(option) == IF option.given THEN option.kinds ELSE ALL_EMIT_BLOCK_KINDS

\* mutant: a category is generated unless it is the only one listed
shouldGenerateBlock_unlessAlone(blocksToEmit, block) == blocksToEmit # {block}

\* this.options.blocksToEmit.includes(block)
shouldGenerateBlock(blocksToEmit, block) == block \in blocksToEmit

\* the keys of the entity as the relation resolver generator reads them:
\* an id field; a composite primary key naming the missing field "zz"; a
\* composite unique index; no key at all
EntityKeys ==
  { [fields |-> << ModelField("a", TRUE, FALSE), ModelField("b", FALSE, FALSE),
                   ModelField("c", FALSE, FALSE) >>,
     primaryKey |-> [present |-> FALSE, key |-> NoKey], uniqueIndexes |-> <<>>],
    [fields |-> << ModelField("a", FALSE, FALSE), ModelField("b", FALSE, FALSE),
                   ModelField("c", FALSE, FALSE) >>,
     primaryKey |-> [present |-> TRUE, key |-> KeyDef(Undefined, <<"a", "zz">>)],
     uniqueIndexes |-> <<>>],
    [fields |-> << ModelField("a", FALSE, FALSE), ModelField("b", FALSE, FALSE),
                   ModelField("c", FALSE, FALSE) >>,
     primaryKey |-> [present |-> FALSE, key |-> NoKey],
     uniqueIndexes |-> << KeyDef(<<"uq">>, <<"b", "c">>) >>],
    [fields |-> << ModelField("a", FALSE, FALSE), ModelField("b", FALSE, FALSE),
                   ModelField("c", FALSE, FALSE) >>,
     primaryKey |-> [present |-> FALSE, key |-> NoKey], uniqueIndexes |-> <<>>] }

\* the entity of the document: whether an output type of its name exists and
\* has a _count field, its relation fields (it is a relation model if it has
\* any), its keys
Entity(hasOutputType, countField, relFields, keys) ==
  [hasOutputType |-> hasOutputType, countField |-> countField,
   relationFields |-> relFields, keys |-> keys]

Entities ==
  { Entity(FALSE, FALSE, <<>>, keys) : keys \in EntityKeys } \cup
  { Entity(TRUE, count, relFields, keys) :
      count \in BOOLEAN, relFields \in { <<>>, <<"posts">> }, keys \in EntityKeys }

\* what one generate() did
BlockResult(threw, itemsGenerated, timed, created, imported) ==
  [threw |-> threw, itemsGenerated |-> itemsGenerated, timed |-> timed,
   created |-> created, imported |-> imported]

\* return { itemsGenerated: 0 } before anything is created
NotGenerated == BlockResult(FALSE, 0, FALSE, {}, {})

\* one file per enum of the schema (there always are some) and the manifest
generateEnums(blocksToEmit) ==
  IF ~shouldGenerateBlock(blocksToEmit, "enums") THEN NotGenerated
  ELSE BlockResult(FALSE, 2, TRUE, { <<"enums", "item">>, <<"enums", "manifest">> }, {})

\* countField !== undefined && shouldGenerateBlock("crudResolvers")
shouldEmitCountField(blocksToEmit, model) ==
  model.countField /\ shouldGenerateBlock(blocksToEmit, "crudResolvers")

\* one class file per model, which imports the count output type if it
\* declares the _count member; throws at a model without output type
generateModels(blocksToEmit, model) ==
  IF ~shouldGenerateBlock(blocksToEmit, "models") THEN NotGenerated
  ELSE IF ~model.hasOutputType THEN BlockResult(TRUE, 0, FALSE, {}, {})
  ELSE BlockResult(FALSE, 1, TRUE,
         { <<"models", "item">>, <<"models", "manifest">> },
         IF shouldEmitCountField(blocksToEmit, model)
           THEN { <<"models", "outputs">> } ELSE {})

\* one class file per output type that is neither a model nor a root type
generateOutputs(blocksToEmit) ==
  IF ~shouldGenerateBlock(blocksToEmit, "outputs") THEN NotGenerated
  ELSE BlockResult(FALSE, 2, TRUE,
         { <<"outputs", "item">>, <<"outputs", "manifest">> }, {})

\* one class file per input type, and the manifest also when there is none
generateInputs(blocksToEmit, inputNames) ==
  IF ~shouldGenerateBlock(blocksToEmit, "inputs") THEN NotGenerated
  ELSE BlockResult(FALSE, Len(inputNames), TRUE,
         ( IF inputNames # <<>> THEN { <<"inputs", "item">> } ELSE {} )
           \cup { <<"inputs", "manifest">> }, {})

\* this.dmmfDocument.relationModels
relationModelsOf(model) ==
  IF model.hasOutputType /\ model.relationFields # <<>> THEN <<model>> ELSE <<>>

\* one resolver class per relation model, each importing the model classes
generateRelationResolvers(blocksToEmit, model) ==
  IF ~( relationModelsOf(model) # <<>>
        /\ shouldGenerateBlock(blocksToEmit, "relationResolvers") ) THEN NotGenerated
  ELSE LET result == generateRelationsResolverClassesFromModel(model.keys,
                                                               model.relationFields)
       IN IF result.status = "threw"
            THEN BlockResult(TRUE, 0, FALSE,
                   IF result.sourceFileCreated
                     THEN { <<"relationResolvers", "item">> } ELSE {},
                   IF result.sourceFileCreated
                     THEN { <<"relationResolvers", "models">> } ELSE {})
          ELSE BlockResult(FALSE, 1, TRUE,
                 { <<"relationResolvers", "item">>, <<"relationResolvers", "manifest">> },
                 { <<"relationResolvers", "models">> })

\* the CRUD resolver of each mapping and one resolver per action; an action
\* resolver imports the model class and, for an action such as aggregate,
\* the action's output type
generateCrudResolvers(blocksToEmit) ==
  IF ~shouldGenerateBlock(blocksToEmit, "crudResolvers") THEN NotGenerated
  ELSE BlockResult(FALSE, 3, TRUE,
         { <<"crudResolvers", "item">>, <<"crudResolvers", "manifest">> },
         { <<"crudResolvers", "models">>, <<"crudResolvers", "outputs">> })

\* generator.generate() of the block's generator
generateBlock(block, blocksToEmit, model, inputNames) ==
  CASE block = "enums" -> generateEnums(blocksToEmit)
    [] block = "models" -> generateModels(blocksToEmit, model)
    [] block = "outputs" -> generateOutputs(blocksToEmit)
    [] block = "inputs" -> generateInputs(blocksToEmit, inputNames)
    [] block = "relationResolvers" -> generateRelationResolvers(blocksToEmit, model)
    [] OTHER -> generateCrudResolvers(blocksToEmit)

\* mutant: the observer is called for every block
observerIsCalled_always(metrics) == TRUE

\* metricsCallback && metrics.itemsGenerated > 0
observerIsCalled(metrics) == metrics.itemsGenerated > 0

BlocksInit ==
  /\ emitOnly \in EmitOnlyOptions
  /\ entity \in Entities
  /\ inputTypeNames \in { <<>>, <<"UserWhereInput">> }
  /\ blockPc = "generating"
  /\ generated = <<>>
  /\ reported = <<>>
  /\ files = {}
  /\ imports = {}
  /\ observed = <<>>
  /\ blockMetrics = <<>>

BlocksIdle ==
  /\ emitOnly = [given |-> FALSE, kinds |-> {}]
  /\ entity = Entity(FALSE, FALSE, <<>>,
                     [fields |-> <<>>, primaryKey |-> [present |-> FALSE, key |-> NoKey],
                      uniqueIndexes |-> <<>>])
  /\ inputTypeNames = <<>>
  /\ blockPc = "idle"
  /\ generated = <<>>
  /\ reported = <<>>
  /\ files = {}
  /\ imports = {}
  /\ observed = <<>>
  /\ blockMetrics = <<>>

\* one iteration of the loop of generateAllBlocks: the block's generate(),
\* then the observer, which emits the block's metric when time has elapsed
GenerateBlock ==
  /\ blockPc = "generating"
  /\ Len(generated) < Len(blockOrder)
  /\ LET blockName == blockOrder[Len(generated) + 1]
         metrics == generateBlock(blockName, getBlocksToEmit(emitOnly), entity,
                                  inputTypeNames)
     IN /\ files' = files \cup metrics.created
        /\ imports' = imports \cup metrics.imported
        /\ IF metrics.threw
             THEN /\ blockPc' = "threw"
                  /\ UNCHANGED <<generated, reported, observed, blockMetrics>>
             ELSE /\ blockPc' = "generating"
                  /\ generated' = Append(generated, blockName)
                  /\ reported' = Append(reported, metrics.itemsGenerated)
                  /\ \E timeElapsed \in IF metrics.timed THEN {0, 1} ELSE {0} :
                       IF observerIsCalled(metrics)
                         THEN /\ observed' = Append(observed, blockName)
                              /\ blockMetrics' =
                                   IF timeElapsed # 0
                                     THEN Append(blockMetrics, blockName)
                                     ELSE blockMetrics
                         ELSE UNCHANGED <<observed, blockMetrics>>
  /\ UNCHANGED <<emitOnly, entity, inputTypeNames>>

\* the loop of generateAllBlocks is over
ReturnBlocks ==
  /\ blockPc = "generating"
  /\ Len(generated) = Len(blockOrder)
  /\ blockPc' = "returned"
  /\ UNCHANGED <<emitOnly, entity, inputTypeNames, generated, reported, files, imports,
                 observed, blockMetrics>>

(***************************************************************************)
(* Claims about the block generators, stated on the options and the        *)
(* entity of the run.                                                      *)
(***************************************************************************)
ClaimEnabledCategories ==
  IF emitOnly.given THEN emitOnly.kinds ELSE ALL_EMIT_BLOCK_KINDS

ClaimHasRelationModel == entity.hasOutputType /\ entity.relationFields # <<>>

ClaimSkipped(category) ==
  \/ category \notin ClaimEnabledCategories
  \/ category = "relationResolvers" /\ ~ClaimHasRelationModel

\* C12: a block generator whose category is not in blocksToEmit (the
\* relationResolvers generator also when there is no relation model) creates
\* no file, item or manifest, and reports itemsGenerated = 0; with emitOnly =
\* enums and models only files of these two categories are created.
C12_SkippedCreatesNothing ==
  /\ \A i \in DOMAIN generated : ClaimSkipped(generated[i]) => reported[i] = 0
  /\ \A file \in files : ~ClaimSkipped(file[1])
  /\ ( emitOnly.given /\ emitOnly.kinds = {"enums", "models"} )
       => \A file \in files : file[1] \in {"enums", "models"}

C12_Witness ==
  /\ blockPc = "returned"
  /\ emitOnly.given /\ emitOnly.kinds = {"enums", "models"}
  /\ ClaimHasRelationModel
  /\ inputTypeNames # <<>>
  /\ files = { <<"enums", "item">>, <<"enums", "manifest">>,
               <<"models", "item">>, <<"models", "manifest">> }
  /\ reported = <<2, 1, 0, 0, 0, 0>>

\* C13: when the block generators have run, no created file imports from a
\* category of which the run created no file; a model class imports the
\* count output type only if the outputs category is enabled.
C13_AsStated ==
  blockPc = "returned" =>
    /\ \A import \in imports : \E file \in files : file[1] = import[2]
    /\ <<"models", "outputs">> \in imports => "outputs" \in ClaimEnabledCategories

(***************************************************************************)
(* Claims about the formatting step, the persistence mode and the fatal    *)
(* errors of a run.                                                        *)
(***************************************************************************)
ClaimLastTwo(s) == IF Len(s) < 2 THEN <<>> ELSE SubSeq(s, Len(s) - 1, Len(s))

\* C14: a failure of the formatter never fails the run: a warning is logged,
\* the persisted files stay, the run goes on to its end, where it emits the
\* metrics code-emission and total-generation and calls onComplete.
C14_FormattingFailureIsNotFatal ==
  formatting = "failed" =>
    /\ pc \in { "finishing", "done" }
    /\ failure = "none"
    /\ warnings = << "Code formatting failed" >>
    /\ persistCalls = << persistedBy >> /\ persistedBy \in { "emit", "save" }
    /\ pc = "done" =>
         /\ ClaimLastTwo(emittedMetrics) = << "code-emission", "total-generation" >>
         /\ onCompleteCalled

C14_Witness ==
  /\ formatting = "failed"
  /\ formatter = "prettier"
  /\ pc = "done"
  /\ onCompleteCalled

\* the same with the default formatter
C14_WitnessTsc ==
  /\ formatting = "failed"
  /\ formatter = "tsc"
  /\ pc = "done"

ClaimTranspiles ==
  \/ emitTranspiledCode = "true"
  \/ emitTranspiledCode = "undefined" /\ outputDirInNodeModules

\* C15: a run persists in exactly one mode: project.emit() if emitTranspiledCode
\* is true, or is unset with an output path inside node_modules, else
\* project.save(); emitTranspiledCode = false forces save() inside
\* node_modules too; never both.
C15_PersistMode ==
  /\ Len(persistCalls) <= 1
  /\ persistCalls # <<>> =>
       persistCalls = << IF ClaimTranspiles THEN "emit" ELSE "save" >>
  /\ pc \in { "formatting", "finishing", "done" } => Len(persistCalls) = 1
  /\ "save-files" \in Range(emittedMetrics) => ~ClaimTranspiles

\* saved raw sources inside node_modules, by the explicit option
C15_Witness ==
  /\ pc = "done"
  /\ emitTranspiledCode = "false"
  /\ outputDirInNodeModules
  /\ persistCalls = << "save" >>

\* transpiled by default inside node_modules
C15_WitnessDefault ==
  /\ pc = "done"
  /\ emitTranspiledCode = "undefined"
  /\ outputDirInNodeModules
  /\ persistCalls = << "emit" >>

\* C16: when the run transpiles, formatGeneratedCode has no effect: whatever
\* its value the run takes the steps it takes when the option is unset (the
\* compiler-based formatting step), Prettier is never run and the step is
\* never left out.
C16_AsStated ==
  ( ClaimTranspiles /\ pc \in { "formatting", "finishing", "done" } ) =>
    /\ formatter = "tsc"
    /\ "prettier-formatting" \notin Range(emittedMetrics)

ClaimBlockKinds ==
  { "enums", "models", "outputs", "inputs", "relationResolvers", "crudResolvers" }

ClaimConfigInvalid ==
  \/ configEmitOnly.given
       /\ \E i \in DOMAIN configEmitOnly.values : configEmitOnly.values[i] \notin ClaimBlockKinds
  \/ formatGeneratedCode \notin { "undefined", "true", "false", "prettier", "tsc" }

\* C17: with an invalid enumerated value of emitOnly or formatGeneratedCode
\* the run fails while it resolves the configuration: generateCode is not
\* called and no file, DMMF dump or generated source, is written.
C17_ConfigErrorBeforeFiles ==
  ClaimConfigInvalid =>
    /\ pc \in { "start", "directoryReady", "dmmfReady", "failed" }
    /\ failure \in { "none", "directory", "dmmf", "config" }
    /\ ~dmmfFiles
    /\ \A i \in DOMAIN phases : phases[i] = "directory"
    /\ started = <<>> /\ auxiliaryFiles = <<>> /\ persistCalls = <<>>
    /\ emittedMetrics = <<>>

C17_Witness ==
  /\ pc = "failed"
  /\ failure = "config"
  /\ emitDMMF
  /\ formatGeneratedCode = "biome"
  /\ ~configEmitOnly.given

\* the same for an emitOnly that lists an unknown category
C17_WitnessEmitOnly ==
  /\ pc = "failed"
  /\ failure = "config"
  /\ emitDMMF
  /\ formatGeneratedCode = "prettier"
  /\ configEmitOnly.given

ClaimPipeModelNames == { PipeDatamodel[i].name : i \in DOMAIN PipeDatamodel }

ClaimRootFieldNames ==
  UNION { { RawOutputTypes(PipeDatamodel)[i].fields[j].name :
              j \in DOMAIN RawOutputTypes(PipeDatamodel)[i].fields } :
          i \in DOMAIN RawOutputTypes(PipeDatamodel) }

ClaimBadMapping ==
  \E i \in DOMAIN dmmfMappings :
    \/ dmmfMappings[i].model \notin ClaimPipeModelNames
    \/ dmmfMappings[i].findMany \notin ClaimRootFieldNames

\* C18: if a mapping names a model that is not in the document, or binds an
\* action to a field no output type has, new DmmfDocument throws: the run
\* fails there, no block generator is started and nothing is persisted.
C18_BadMappingAborts ==
  ClaimBadMapping =>
    /\ pc \in { "start", "directoryReady", "dmmfReady", "configParsed", "configured",
                "failed" }
    /\ \A i \in DOMAIN phases : phases[i] = "directory"
    /\ started = <<>> /\ auxiliaryFiles = <<>> /\ persistCalls = <<>>
    /\ failure \notin { "block", "persist", "formatting" }

C18_Witness ==
  /\ pc = "failed"
  /\ failure = "document"
  /\ dmmfMappings = << RawMapping(<<"User">>, <<"findMany", "Ghost">>) >>

\* the same for a mapping of a model that is not in the document
C18_WitnessModel ==
  /\ pc = "failed"
  /\ failure = "document"
  /\ Len(dmmfMappings) = 2
  /\ dmmfMappings[2].model = <<"Ghost">>

(***************************************************************************)
(* Claims about the schema errors and the observer of the block            *)
(* generators.                                                             *)
(***************************************************************************)
ClaimFieldNames == { entity.keys.fields[i].name : i \in DOMAIN entity.keys.fields }

ClaimKeyNamesAbsentField ==
  \/ entity.keys.primaryKey.present
       /\ \E i \in DOMAIN entity.keys.primaryKey.key.fields :
            entity.keys.primaryKey.key.fields[i] \notin ClaimFieldNames
  \/ \E k \in DOMAIN entity.keys.uniqueIndexes :
       \E i \in DOMAIN entity.keys.uniqueIndexes[k].fields :
         entity.keys.uniqueIndexes[k].fields[i] \notin ClaimFieldNames

\* C19: if a composite primary key or a composite unique index of the entity
\* names a field that the entity does not have, the block generators do not
\* return: the run aborts with an error before anything is persisted,
\* whatever the entity's relation fields and the enabled categories.
C19_AsStated ==
  ClaimKeyNamesAbsentField => blockPc # "returned"

ClaimPosition(block) == CHOOSE i \in DOMAIN ClaimBlockOrder : ClaimBlockOrder[i] = block

ClaimReportedNothing(block) ==
  \A j \in DOMAIN generated : generated[j] = block => reported[j] = 0

\* C20: the observer is called for a block only if its generate() reported
\* itemsGenerated > 0, at most once for a block and in block order; a
\* disabled or empty block has no "<block>-generation" metric.
C20_ObserverOnlyForItems ==
  /\ \A i \in DOMAIN observed :
       \E j \in DOMAIN generated : generated[j] = observed[i] /\ reported[j] > 0
  /\ \A i, j \in DOMAIN observed :
       i < j => ClaimPosition(observed[i]) < ClaimPosition(observed[j])
  /\ \A i \in DOMAIN blockMetrics :
       /\ ~ClaimSkipped(blockMetrics[i])
       /\ ~ClaimReportedNothing(blockMetrics[i])
       /\ blockMetrics[i] \in Range(observed)
  /\ \A i, j \in DOMAIN blockMetrics :
       i < j => ClaimPosition(blockMetrics[i]) < ClaimPosition(blockMetrics[j])

\* a run over all categories with no input type and no relation model
C20_Witness ==
  /\ blockPc = "returned"
  /\ ~emitOnly.given
  /\ inputTypeNames = <<>>
  /\ reported = <<2, 1, 2, 0, 0, 3>>
  /\ <<"inputs", "manifest">> \in files
  /\ observed = <<"enums", "models", "outputs", "crudResolvers">>
  /\ blockMetrics = observed

(***************************************************************************)
(* transformMapping: the actions of each entity's operation mapping and    *)
(* their public names.  Names are strings here.                            *)
(***************************************************************************)
VARIABLES mappingEntities, useOriginalMapping, transformedMappings

actVars == <<mappingEntities, useOriginalMapping, transformedMappings>>

supportedQueryActions ==
  { "findUnique", "findUniqueOrThrow", "findFirst", "findMany", "aggregate" }

supportedMutationActions == { "createOne", "deleteOne" }

\* "Query", "Mutation", or undefined for any other key of the raw mapping
getOperationKindName(actionName) ==
  IF actionName \in supportedQueryActions THEN "Query"
  ELSE IF actionName \in supportedMutationActions THEN "Mutation"
  ELSE "undefined"

\* the place of an action kind in the order of localeCompare
kindRank(actionName) ==
  CASE actionName = "aggregate" -> 1
    [] actionName = "count" -> 2
    [] actionName = "createOne" -> 3
    [] actionName = "deleteOne" -> 4
    [] actionName = "findFirst" -> 5
    [] actionName = "findMany" -> 6
    [] actionName = "findUnique" -> 7
    [] actionName = "findUniqueOrThrow" -> 8
    [] OTHER -> 9

\* entries.sort(([a], [b]) => a.localeCompare(b))
RECURSIVE sortByKind(_)
sortByKind(entries) ==
  IF entries = <<>> THEN <<>>
  ELSE LET least == CHOOSE i \in DOMAIN entries :
                      \A j \in DOMAIN entries :
                        kindRank(entries[i].kind) <= kindRank(entries[j].kind)
           rest == [j \in 1 .. (Len(entries) - 1) |->
                      IF j < least THEN entries[j] ELSE entries[j + 1]]
       IN <<entries[least]>> \o sortByKind(rest)

\* actionName.includes("OrThrow")
includesOrThrow(actionName) == actionName \in { "findUniqueOrThrow", "findFirstOrThrow" }

\* actionName.replace("OrThrow", "")
replaceOrThrow(actionName) ==
  CASE actionName = "findUniqueOrThrow" -> "findUnique"
    [] actionName = "findFirstOrThrow" -> "findFirst"
    [] OTHER -> actionName

mapDefaultActionName(actionName, typeName) ==
  IF includesOrThrow(actionName)
    THEN replaceOrThrow(actionName) \o typeName \o "OrThrow"
    ELSE actionName \o typeName

\* helpers camelCase: the first letter in lower case
camelCase(text) ==
  CASE text = "User" -> "user"
    [] text = "Users" -> "users"
    [] text = "Sheep" -> "sheep"
    [] text = "People" -> "people"
    [] text = "Person" -> "person"
    [] OTHER -> text

\* the pluralize package
pluralize(text) ==
  CASE text = "User" -> "Users"
    [] text = "user" -> "users"
    [] text = "Person" -> "People"
    [] OTHER -> text

\* attributeArgs.plural: the text given by @@TypeGraphQL.type(plural: "..."),
\* if any
Plural(given, text) == [given |-> given, text |-> text]

\* !overriddenPlural
hasNoText(overriddenPlural) == ~overriddenPlural.given \/ overriddenPlural.text = ""

\* mutant: findUniqueOrThrow keeps its default name
getMappedActionName_plainOrThrow(actionName, typeName, overriddenPlural, original) ==
  IF original THEN mapDefaultActionName(actionName, typeName)
  ELSE IF hasNoText(overriddenPlural) /\ typeName = pluralize(typeName)
    THEN mapDefaultActionName(actionName, typeName)
  ELSE CASE actionName = "findUnique" -> camelCase(typeName)
         [] actionName = "findMany" ->
              camelCase(IF overriddenPlural.given THEN overriddenPlural.text
                        ELSE pluralize(typeName))
         [] OTHER -> mapDefaultActionName(actionName, typeName)

\* the public name of an action
getMappedActionName(actionName, typeName, overriddenPlural, original) ==
  IF original THEN mapDefaultActionName(actionName, typeName)
  ELSE IF hasNoText(overriddenPlural) /\ typeName = pluralize(typeName)
    THEN mapDefaultActionName(actionName, typeName)
  ELSE CASE actionName = "findUnique" -> camelCase(typeName)
         [] actionName = "findUniqueOrThrow" -> "get" \o typeName
         [] actionName = "findMany" ->
              camelCase(IF overriddenPlural.given THEN overriddenPlural.text
                        ELSE pluralize(typeName))
         [] OTHER -> mapDefaultActionName(actionName, typeName)

\* helpers pascalCase of an action kind
pascalCaseKind(actionName) ==
  CASE actionName = "aggregate" -> "Aggregate"
    [] actionName = "createOne" -> "CreateOne"
    [] actionName = "deleteOne" -> "DeleteOne"
    [] actionName = "findFirst" -> "FindFirst"
    [] actionName = "findMany" -> "FindMany"
    [] actionName = "findUnique" -> "FindUnique"
    [] OTHER -> actionName

\* `${pascalCase(mapDefaultActionName(actionName, typeName))}Args`
getMappedArgsTypeName(actionName, typeName) ==
  IF includesOrThrow(actionName)
    THEN pascalCaseKind(replaceOrThrow(actionName)) \o typeName \o "OrThrow" \o "Args"
    ELSE pascalCaseKind(actionName) \o typeName \o "Args"

\* an entry of the raw mapping: the action kind, the root field it is bound
\* to ("" for null) and the number of arguments of that field
RawAction(kind, fieldName, nArgs) == [kind |-> kind, fieldName |-> fieldName, nArgs |-> nArgs]

\* mutant: the entries are filtered but stay in the order of the raw mapping
availableActions_unsorted(entries) ==
  LET kept(entry) == entry.fieldName # "" /\ getOperationKindName(entry.kind) # "undefined"
  IN SelectSeq(entries, kept)

\* Object.entries(availableActions).sort(...).filter(fieldName && kind name)
availableActions(entries) ==
  LET kept(entry) == entry.fieldName # "" /\ getOperationKindName(entry.kind) # "undefined"
  IN SelectSeq(sortByKind(entries), kept)

\* the DMMF.Action of an entry; argsTypeName is "" when undefined
transformAction(entry, typeName, overriddenPlural, original) ==
  [kind |-> entry.kind,
   fieldName |-> entry.fieldName,
   operation |-> getOperationKindName(entry.kind),
   name |-> getMappedActionName(entry.kind, typeName, overriddenPlural, original),
   argsTypeName |-> IF entry.nArgs > 0 THEN getMappedArgsTypeName(entry.kind, typeName)
                    ELSE ""]

\* the DMMF.ModelMapping of an entity
transformEntityMapping(owner, original) ==
  [modelTypeName |-> owner.typeName,
   actions |-> [i \in DOMAIN availableActions(owner.table) |->
                  transformAction(availableActions(owner.table)[i], owner.typeName,
                                  owner.plural, original)],
   resolverName |-> owner.typeName \o "CrudResolver"]

\* the display names of the entities of a document
TypeNames == { "User", "user", "Users", "Sheep", "Person" }

Plurals == { Plural(FALSE, ""), Plural(TRUE, "user"), Plural(TRUE, "People") }

\* the raw mapping of an entity, in the order of the DMMF: actions that are
\* null for the entity, an action kind that is not supported, root fields
\* with and without arguments
RawTables ==
  { << RawAction("findUnique", unique, 1),
       RawAction("findUniqueOrThrow", orThrow, 1),
       RawAction("findMany", "findManyX", 1),
       RawAction("createOne", create, 1),
       RawAction("aggregate", "aggregateX", aggregateArgs),
       RawAction("count", count, 1) >> :
      unique \in { "", "findUniqueX" }, orThrow \in { "", "findUniqueXOrThrow" },
      create \in { "", "createOneX" }, aggregateArgs \in { 0, 1 },
      count \in { "", "countX" } }

FullTable ==
  << RawAction("findUnique", "findUniqueY", 1),
     RawAction("findUniqueOrThrow", "findUniqueYOrThrow", 1),
     RawAction("findMany", "findManyY", 1) >>

MappingEntity(typeName, plural, table) ==
  [typeName |-> typeName, plural |-> plural, table |-> table]

\* one entity, or two entities of different display names
MappingEntityLists ==
  { << MappingEntity(typeName, plural, table) >> :
      typeName \in TypeNames, plural \in Plurals, table \in RawTables } \cup
  { << MappingEntity(pair[1], plural, table),
       MappingEntity(pair[2], otherPlural, FullTable) >> :
      pair \in { p \in TypeNames \X TypeNames : p[1] # p[2] },
      plural \in Plurals, otherPlural \in { Plural(FALSE, ""), Plural(TRUE, "user") },
      table \in { t \in RawTables : t[1].fieldName # "" /\ t[6].fieldName = "" } }

ActInit ==
  /\ mappingEntities \in MappingEntityLists
  /\ useOriginalMapping \in BOOLEAN
  /\ transformedMappings = <<>>

ActIdle ==
  /\ mappingEntities = <<>>
  /\ useOriginalMapping = FALSE
  /\ transformedMappings = <<>>

\* mapping.map(transformMapping(dmmfDocument, options)): the next mapping
TransformMapping ==
  /\ Len(transformedMappings) < Len(mappingEntities)
  /\ transformedMappings' =
       Append(transformedMappings,
              transformEntityMapping(mappingEntities[Len(transformedMappings) + 1],
                                     useOriginalMapping))
  /\ UNCHANGED <<mappingEntities, useOriginalMapping>>

(***************************************************************************)
(* Claims about the operation mappings, stated on the raw mappings.        *)
(***************************************************************************)
ClaimDefaultName(kind, typeName) ==
  IF kind = "findUniqueOrThrow" THEN "findUnique" \o typeName \o "OrThrow"
  ELSE kind \o typeName

ClaimActionName(kind, owner) ==
  IF useOriginalMapping \/ ( ~owner.plural.given /\ owner.typeName = pluralize(owner.typeName) )
    THEN ClaimDefaultName(kind, owner.typeName)
  ELSE IF kind = "findUnique" THEN camelCase(owner.typeName)
  ELSE IF kind = "findUniqueOrThrow" THEN "get" \o owner.typeName
  ELSE IF kind = "findMany"
    THEN camelCase(IF owner.plural.given THEN owner.plural.text
                   ELSE pluralize(owner.typeName))
  ELSE ClaimDefaultName(kind, owner.typeName)

\* C21: the public name of every action is the default name <kind><TypeName>
\* (OrThrow moved to the end) under useOriginalMapping or when the entity has
\* no plural override and is its own plural; else findUnique is
\* camelCase(TypeName), findUniqueOrThrow is get<TypeName>, findMany is the
\* camelCased plural (the override, else the computed one), any other kind
\* the default name.
C21_ActionNames ==
  \A i \in DOMAIN transformedMappings :
    \A j \in DOMAIN transformedMappings[i].actions :
      transformedMappings[i].actions[j].name =
        ClaimActionName(transformedMappings[i].actions[j].kind, mappingEntities[i])

C21_Witness ==
  /\ ~useOriginalMapping
  /\ Len(transformedMappings) = 1
  /\ mappingEntities[1].typeName = "User"
  /\ mappingEntities[1].plural = Plural(TRUE, "People")
  /\ \E j \in DOMAIN transformedMappings[1].actions :
       /\ transformedMappings[1].actions[j].kind = "findMany"
       /\ transformedMappings[1].actions[j].name = "people"
  /\ \E j \in DOMAIN transformedMappings[1].actions :
       /\ transformedMappings[1].actions[j].kind = "findUniqueOrThrow"
       /\ transformedMappings[1].actions[j].name = "getUser"
  /\ \E j \in DOMAIN transformedMappings[1].actions :
       /\ transformedMappings[1].actions[j].kind = "aggregate"
       /\ transformedMappings[1].actions[j].name = "aggregateUser"

\* an entity that is its own plural keeps the default names
C21_WitnessOwnPlural ==
  /\ ~useOriginalMapping
  /\ Len(transformedMappings) = 1
  /\ mappingEntities[1].typeName = "Sheep"
  /\ ~mappingEntities[1].plural.given
  /\ \E j \in DOMAIN transformedMappings[1].actions :
       transformedMappings[1].actions[j].name = "findUniqueSheepOrThrow"

(***************************************************************************)
(* generateObjectTypeClassFromModel: the members of a model class.         *)
(***************************************************************************)
VARIABLES classFields, emitCountField, classMembers

classVars == <<classFields, emitCountField, classMembers>>

\* a field of the DMMF.Model; typeFieldAlias and relationName are "" when
\* undefined
ClassField(name, typeFieldAlias, relationName, isRequired, omitOutput) ==
  [name |-> name, typeFieldAlias |-> typeFieldAlias, relationName |-> relationName,
   isRequired |-> isRequired, omitOutput |-> omitOutput]

\* a member of the class: a property or a get accessor, the model field it
\* reads, whether it carries the TypeGraphQL.Field decorator and with which
\* nullable option, and for an accessor whether it returns null for undefined
ClassMember(kind, name, field, decorated, nullable, orNull) ==
  [kind |-> kind, name |-> name, field |-> field, decorated |-> decorated,
   nullable |-> nullable, orNull |-> orNull]

\* !!field.relationName || field.isOmitted.output ||
\* (!field.isRequired && field.typeFieldAlias === undefined)
isOptionalProperty(field) ==
  \/ field.relationName # ""
  \/ field.omitOutput
  \/ ~field.isRequired /\ field.typeFieldAlias = ""

\* mutant: the property of an aliased field keeps its decorator
propertyIsDecorated_aliasedToo(field) ==
  ~( field.relationName # "" \/ field.omitOutput )

\* field.relationName || field.typeFieldAlias || field.isOmitted.output ? [] : [Field]
propertyIsDecorated(field) ==
  ~( field.relationName # "" \/ field.typeFieldAlias # "" \/ field.omitOutput )

propertyOf(field) ==
  ClassMember("property", field.name, field.name, propertyIsDecorated(field),
              isOptionalProperty(field), FALSE)

\* field.typeFieldAlias && !field.relationName && !field.isOmitted.output
hasGetAccessor(field) ==
  field.typeFieldAlias # "" /\ field.relationName = "" /\ ~field.omitOutput

getAccessorOf(field) ==
  ClassMember("accessor", field.typeFieldAlias, field.name, TRUE, ~field.isRequired,
              ~field.isRequired)

\* the properties of the fields, the _count property, the get accessors
generateObjectTypeClassFromModel(fields, withCount) ==
  [i \in DOMAIN fields |-> propertyOf(fields[i])]
  \o ( IF withCount
         THEN << ClassMember("property", "_count", "_count", TRUE, TRUE, FALSE) >>
         ELSE <<>> )
  \o [i \in DOMAIN SelectSeq(fields, hasGetAccessor) |->
        getAccessorOf(SelectSeq(fields, hasGetAccessor)[i])]

\* the fields of the model: a scalar or a relation field, with or without
\* alias, required or not, omitted from the output or not
ClassFieldsOf(name, alias) ==
  { ClassField(name, typeFieldAlias, relationName, isRequired, omitOutput) :
      typeFieldAlias \in { "", alias }, relationName \in { "", "Rel" },
      isRequired \in BOOLEAN, omitOutput \in BOOLEAN }

ClassFieldLists ==
  { <<first>> : first \in ClassFieldsOf("title", "headline") } \cup
  { <<first, second>> : first \in ClassFieldsOf("title", "headline"),
                        second \in ClassFieldsOf("author", "writer") }

ClassInit ==
  /\ classFields \in ClassFieldLists
  /\ emitCountField \in BOOLEAN
  /\ classMembers = <<>>

ClassIdle ==
  /\ classFields = <<>>
  /\ emitCountField = FALSE
  /\ classMembers = <<>>

\* sourceFile.addClass({ properties, getAccessors })
GenerateObjectTypeClass ==
  /\ classFields # <<>>
  /\ classMembers = <<>>
  /\ classMembers' = generateObjectTypeClassFromModel(classFields, emitCountField)
  /\ UNCHANGED <<classFields, emitCountField>>

(***************************************************************************)
(* Claims about the members of the model class.                            *)
(***************************************************************************)
ClaimMembersOf(fieldName) ==
  { i \in DOMAIN classMembers : classMembers[i].field = fieldName }

ClaimExposedUnderAlias(field) ==
  /\ \E i \in ClaimMembersOf(field.name) :
       /\ classMembers[i].kind = "accessor"
       /\ classMembers[i].name = field.typeFieldAlias
       /\ classMembers[i].decorated
       /\ classMembers[i].orNull = ~field.isRequired
  /\ \E i \in ClaimMembersOf(field.name) :
       /\ classMembers[i].kind = "property"
       /\ classMembers[i].name = field.name
       /\ ~classMembers[i].decorated
  /\ Cardinality({ i \in ClaimMembersOf(field.name) : classMembers[i].decorated }) = 1

\* C22 as stated: every model field with an alias A has in the model class
\* an accessor named A with the field decorator, returning the property (or
\* null for an optional field), and the property of its own name without
\* decorator: it is exposed once, under A.
C22_AsStated ==
  classMembers # <<>> =>
    \A k \in DOMAIN classFields :
      classFields[k].typeFieldAlias # "" => ClaimExposedUnderAlias(classFields[k])

\* C22 amended: this holds of every aliased field that is neither a relation
\* field nor omitted from the output; an aliased relation field or omitted
\* field has its property without decorator and no accessor in the class.
C22_AliasedFields ==
  classMembers # <<>> =>
    \A k \in DOMAIN classFields :
      classFields[k].typeFieldAlias # "" =>
        IF classFields[k].relationName = "" /\ ~classFields[k].omitOutput
          THEN ClaimExposedUnderAlias(classFields[k])
          ELSE \A i \in ClaimMembersOf(classFields[k].name) :
                 classMembers[i].kind = "property" /\ ~classMembers[i].decorated

C22_Witness ==
  /\ Len(classFields) = 2
  /\ classFields[1] = ClassField("title", "headline", "", FALSE, FALSE)
  /\ classFields[2] = ClassField("author", "writer", "Rel", TRUE, FALSE)
  /\ emitCountField
  /\ Len(classMembers) = 4
  /\ classMembers[4] = ClassMember("accessor", "headline", "title", TRUE, TRUE, TRUE)

ClaimPrimitives ==
  { "findUnique", "findUniqueOrThrow", "findFirst", "findMany", "aggregate",
    "createOne", "deleteOne" }

ClaimKindOrder ==
  << "aggregate", "count", "createOne", "deleteOne", "findFirst", "findMany",
     "findUnique", "findUniqueOrThrow" >>

ClaimKindPosition(kind) == CHOOSE p \in DOMAIN ClaimKindOrder : ClaimKindOrder[p] = kind

ClaimKeptEntries(table) ==
  { k \in DOMAIN table : table[k].kind \in ClaimPrimitives /\ table[k].fieldName # "" }

\* C23: the actions of a mapping are exactly the raw entries of a supported
\* query or mutation kind that are bound to a field name, in ascending order
\* of the kind; an action has an argsTypeName iff its field takes arguments.
C23_ActionsOfMapping ==
  \A i \in DOMAIN transformedMappings :
    LET table == mappingEntities[i].table
        actions == transformedMappings[i].actions
    IN /\ Len(actions) = Cardinality(ClaimKeptEntries(table))
       /\ \A k \in ClaimKeptEntries(table) :
            \E j \in DOMAIN actions :
              /\ actions[j].kind = table[k].kind
              /\ actions[j].fieldName = table[k].fieldName
              /\ ( actions[j].argsTypeName # "" ) <=> ( table[k].nArgs > 0 )
       /\ \A j, l \in DOMAIN actions :
            j < l => ClaimKindPosition(actions[j].kind) < ClaimKindPosition(actions[l].kind)

C23_Witness ==
  /\ Len(transformedMappings) = 1
  /\ mappingEntities[1].table[1].fieldName = ""
  /\ mappingEntities[1].table[6].fieldName = "countX"
  /\ mappingEntities[1].table[5].nArgs = 0
  /\ Len(transformedMappings[1].actions) = 4
  /\ transformedMappings[1].actions[1].kind = "aggregate"
  /\ transformedMappings[1].actions[1].argsTypeName = ""
  /\ transformedMappings[1].actions[2].argsTypeName = "CreateOneUserArgs"
  /\ transformedMappings[1].actions[4].kind = "findUniqueOrThrow"

ClaimAllActions ==
  UNION { { <<i, j>> : j \in DOMAIN transformedMappings[i].actions } :
          i \in DOMAIN transformedMappings }

\* C30: the public names of all actions of all entities of a document are
\* pairwise distinct, the display names of the entities being distinct, for
\* every useOriginalMapping and every plural override.
C30_AsStated ==
  \A a, b \in ClaimAllActions :
    a # b => transformedMappings[a[1]].actions[a[2]].name
               # transformedMappings[b[1]].actions[b[2]].name

(***************************************************************************)
(* The two enum passes of the DmmfDocument constructor: the values map of  *)
(* transformEnums and the field alias cache.                               *)
(***************************************************************************)
VARIABLES enumDatamodel, enumPc, enumDocModels, enumModelsCache, fieldAliasCache,
          schemaEnums

enumVars == <<enumDatamodel, enumPc, enumDocModels, enumModelsCache, fieldAliasCache,
              schemaEnums>>

\* a field of a datamodel model with the name given by
\* /// @TypeGraphQL.field(name: "..."), Undefined without one
AliasedField(name, typeFieldAlias) == [name |-> name, typeFieldAlias |-> typeFieldAlias]

EnumModel(name, docName, fields) == [name |-> name, docName |-> docName, fields |-> fields]

\* a model with an Int field id and a String field email, each with or
\* without alias, the model with or without a type name of its own
EnumModels(name) ==
  { EnumModel(name, docName,
              << AliasedField(<<"id">>, idAlias), AliasedField(<<"email">>, emailAlias) >>) :
      docName \in { Undefined, <<"Client">> },
      idAlias \in { Undefined, <<"key">> },
      emailAlias \in { Undefined, <<"mail">> } }

EnumDatamodels ==
  { <<m>> : m \in UNION { EnumModels(n) : n \in ModelNames } } \cup
  UNION { { <<m1, m2>> : m1 \in EnumModels(pair[1]), m2 \in EnumModels(pair[2]) } :
          pair \in { p \in ModelNames \X ModelNames : p[1] # p[2] } }

RawEnum(name, values) == [name |-> name, values |-> values]

\* the enums Prisma derives from a model, named after the capitalized model
\* name: the scalar fields, and the String fields for the relevance order
RawEnumsOf(m) ==
  << RawEnum(capitalize(m.name) \o <<"Scalar", "Field", "Enum">>,
             [j \in DOMAIN m.fields |-> m.fields[j].name]),
     RawEnum(capitalize(m.name) \o <<"OrderBy", "Relevance", "Field", "Enum">>,
             << <<"email">> >>) >>

RECURSIVE ModelEnums(_)
ModelEnums(ms) ==
  IF ms = <<>> THEN <<>> ELSE RawEnumsOf(Head(ms)) \o ModelEnums(Tail(ms))

\* schema.enumTypes.prisma.concat(schema.enumTypes.model): the enums of the
\* models and an enum of the datamodel, one of whose values reads as a field
RawSchemaEnums(ms) ==
  ModelEnums(ms) \o << RawEnum(<<"Role">>, << <<"ADMIN">>, <<"email">> >>) >>

\* the aliases the constructor caches for a model: field.name to
\* field.typeFieldAlias for the fields that have one
fieldAliasesOf(model) ==
  LET aliased == { j \in DOMAIN model.fields : model.fields[j].typeFieldAlias # Undefined }
  IN [fieldName \in { model.fields[j].name : j \in aliased } |->
        (CHOOSE j \in aliased : model.fields[j].name = fieldName)]

\* the cache after the second models.map: an entry under model.name for
\* each model with at least one aliased field
RECURSIVE cacheFieldAliases(_, _)
cacheFieldAliases(cache, ms) ==
  IF ms = <<>> THEN cache
  ELSE LET model == Head(ms)
           J == fieldAliasesOf(model)
           aliases == [fieldName \in DOMAIN J |-> model.fields[J[fieldName]].typeFieldAlias]
       IN cacheFieldAliases(IF DOMAIN aliases # {}
                              THEN MapSet(cache, model.name, aliases) ELSE cache,
                            Tail(ms))

\* this.fieldAliasCache.get(modelName)?.get(fieldName)
getModelFieldAlias(cache, modelName, fieldName) ==
  IF modelName \in DOMAIN cache /\ fieldName \in DOMAIN cache[modelName]
    THEN cache[modelName][fieldName]
    ELSE Undefined

EnumValue(value, name) == [value |-> value, name |-> name]

\* (modelName && getModelFieldAlias(modelName, enumValueName)) || enumValueName
enumValueDisplayName(cache, modelName, enumValueName) ==
  IF modelName # Undefined /\ getModelFieldAlias(cache, modelName, enumValueName) # Undefined
    THEN getModelFieldAlias(cache, modelName, enumValueName)
    ELSE enumValueName

\* transformEnums with its values map: modelName is the enum name without
\* the detected suffix, undefined for an enum without one
transformEnumDef(doc, cache, enumDef) ==
  LET ends(suffix) == endsWith(enumDef.name, suffix)
      detected == SelectSeq(ENUM_SUFFIXES, ends)
      modelName == IF detected = <<>> THEN Undefined
                   ELSE SubSeq(enumDef.name, 1, Len(enumDef.name) - Len(detected[1]))
  IN [name |-> enumDef.name,
      typeName |-> transformEnums(doc, enumDef.name).typeName,
      valuesMap |-> [k \in DOMAIN enumDef.values |->
                       EnumValue(enumDef.values[k],
                                 enumValueDisplayName(cache, modelName, enumDef.values[k]))]]

EnumsInit ==
  /\ enumDatamodel \in EnumDatamodels
  /\ enumPc = "new"
  /\ enumDocModels = <<>>
  /\ enumModelsCache = EmptyMap
  /\ fieldAliasCache = EmptyMap
  /\ schemaEnums = <<>>

EnumsIdle ==
  /\ enumDatamodel = <<>>
  /\ enumPc = "idle"
  /\ enumDocModels = <<>>
  /\ enumModelsCache = EmptyMap
  /\ fieldAliasCache = EmptyMap
  /\ schemaEnums = <<>>

\* the bare models, then this.enums = enumTypes.map(transformEnums(this))
TransformEnumsFirst ==
  /\ enumPc = "new"
  /\ enumDocModels' = [i \in DOMAIN enumDatamodel |-> transformBareModel(enumDatamodel[i])]
  /\ schemaEnums' = [i \in DOMAIN RawSchemaEnums(enumDatamodel) |->
                       transformEnumDef(Doc(enumDocModels', enumModelsCache),
                                        fieldAliasCache, RawSchemaEnums(enumDatamodel)[i])]
  /\ enumPc' = "fields"
  /\ UNCHANGED <<enumDatamodel, enumModelsCache, fieldAliasCache>>

\* the second models.map: modelsCache and fieldAliasCache are filled under
\* model.name
CacheModelFields ==
  /\ enumPc = "fields"
  /\ enumModelsCache' = [name \in { enumDatamodel[i].name : i \in DOMAIN enumDatamodel } |->
                           transformBareModel(
                             enumDatamodel[CHOOSE i \in DOMAIN enumDatamodel :
                                             enumDatamodel[i].name = name])]
  /\ fieldAliasCache' = cacheFieldAliases(fieldAliasCache, enumDatamodel)
  /\ enumPc' = "enums"
  /\ UNCHANGED <<enumDatamodel, enumDocModels, schemaEnums>>

\* this.enums = enumTypes.map(...) a second time, kept as schema.enums
TransformEnumsSecond ==
  /\ enumPc = "enums"
  /\ schemaEnums' = [i \in DOMAIN RawSchemaEnums(enumDatamodel) |->
                       transformEnumDef(Doc(enumDocModels, enumModelsCache),
                                        fieldAliasCache, RawSchemaEnums(enumDatamodel)[i])]
  /\ enumPc' = "done"
  /\ UNCHANGED <<enumDatamodel, enumDocModels, enumModelsCache, fieldAliasCache>>

(***************************************************************************)
(* Claims about the value names of the model enums.                        *)
(***************************************************************************)
\* the models an enum name is derived from
ClaimEnumOwners(enumName) ==
  { i \in DOMAIN enumDatamodel :
      \/ enumName = capitalize(enumDatamodel[i].name) \o <<"Scalar", "Field", "Enum">>
      \/ enumName = capitalize(enumDatamodel[i].name)
                      \o <<"OrderBy", "Relevance", "Field", "Enum">> }

\* the alias of the model field of that name if it has one, else the value
ClaimValueName(model, value) ==
  LET named == { j \in DOMAIN model.fields : model.fields[j].name = value }
  IN IF \E j \in named : model.fields[j].typeFieldAlias # Undefined
       THEN model.fields[CHOOSE j \in named : model.fields[j].typeFieldAlias # Undefined]
              .typeFieldAlias
       ELSE value

\* C24 as stated: in the finished document every value of an enum derived
\* from a model (ScalarFieldEnum, OrderByRelevanceFieldEnum) is displayed
\* under the alias of the model field of that name if the field has one and
\* under the raw value otherwise; these are the enums of the second pass.
C24_AsStated ==
  enumPc = "done" =>
    /\ Len(schemaEnums) = 2 * Len(enumDatamodel) + 1
    /\ \A e \in DOMAIN schemaEnums :
         \A i \in ClaimEnumOwners(schemaEnums[e].name) :
           \A k \in DOMAIN schemaEnums[e].valuesMap :
             schemaEnums[e].valuesMap[k].name =
               ClaimValueName(enumDatamodel[i], schemaEnums[e].valuesMap[k].value)

(***************************************************************************)
(* transformInputType: the fields of an input type and their omission.     *)
(***************************************************************************)
VARIABLES inputTypeName, inputTypeFields, modelInputFields, transformedInputFields

inputVars == <<inputTypeName, inputTypeFields, modelInputFields, transformedInputFields>>

\* InputOmitSetting
InputOmitSettings == { "Create", "Update", "Where", "OrderBy" }

\* isOmitted.input of a model field: a boolean, or a list of settings
OmitFlag(flag) == [isList |-> FALSE, flag |-> flag, settings |-> {}]

OmitList(settings) == [isList |-> TRUE, flag |-> FALSE, settings |-> settings]

ModelInputField(name, omitInput) == [name |-> name, omitInput |-> omitInput]

InputField(name, deprecated) == [name |-> name, deprecated |-> deprecated]

\* the model an input type is named after, "" for none
getModelNameFromInputType(name) ==
  IF startsWith(name, "User") THEN "User" ELSE ""

\* dmmfDocument.getModelField(modelType.name, field.name) of the model type
\* found for the input type; 0 for undefined
modelFieldOf(name, modelFields, fieldName) ==
  LET found == { j \in DOMAIN modelFields : modelFields[j].name = fieldName }
  IN IF getModelNameFromInputType(name) = "" \/ found = {} THEN 0
     ELSE CHOOSE j \in found : TRUE

\* the isOmitted of a field with a model field: the boolean, or for a list
\* whether a listed setting is part of the input type's name
isOmittedInput(name, omitInput) ==
  IF ~omitInput.isList THEN omitInput.flag
  ELSE \/ "Create" \in omitInput.settings /\ includes(name, "Create")
       \/ "Update" \in omitInput.settings /\ includes(name, "Update")
       \/ "Where" \in omitInput.settings /\ includes(name, "Where")
       \/ "OrderBy" \in omitInput.settings /\ includes(name, "OrderBy")

notDeprecated(field) == ~field.deprecated

\* the fields without deprecation, each with its isOmitted
transformInputType(name, fields, modelFields) ==
  LET kept == SelectSeq(fields, notDeprecated)
  IN [i \in DOMAIN kept |->
        [name |-> kept[i].name,
         isOmitted |->
           IF modelFieldOf(name, modelFields, kept[i].name) = 0 THEN FALSE
           ELSE isOmittedInput(name,
                  modelFields[modelFieldOf(name, modelFields, kept[i].name)].omitInput)]]

\* input types Prisma derives from a model User that has the relation
\* fields posts, createdPosts and updates, and a filter of no model
InputTypeNames ==
  { "UserCreateInput", "UserUncheckedCreateInput", "UserCreateWithoutPostsInput",
    "UserCreateWithoutUpdatesInput", "UserUpdateInput", "UserUpdateManyMutationInput",
    "UserUpdateWithoutCreatedPostsInput", "UserWhereInput", "UserWhereUniqueInput",
    "UserOrderByWithRelationInput", "UserCountOrderByAggregateInput", "StringFilter" }

\* the fields of the input type: model fields, and one that is none
InputFieldLists ==
  { << InputField("id", FALSE), InputField("email", deprecated) >> :
      deprecated \in BOOLEAN } \cup
  { << InputField("email", FALSE), InputField("AND", FALSE) >> }

\* the model: id with a boolean omission, email with a boolean or a list
ModelInputFieldLists ==
  { << ModelInputField("id", OmitFlag(idFlag)), ModelInputField("email", omitInput) >> :
      idFlag \in BOOLEAN,
      omitInput \in { OmitFlag(flag) : flag \in BOOLEAN } \cup
                    { OmitList(settings) : settings \in SUBSET InputOmitSettings } }

InputInit ==
  /\ inputTypeName \in InputTypeNames
  /\ inputTypeFields \in InputFieldLists
  /\ modelInputFields \in ModelInputFieldLists
  /\ transformedInputFields = <<>>

InputIdle ==
  /\ inputTypeName = ""
  /\ inputTypeFields = <<>>
  /\ modelInputFields = <<>>
  /\ transformedInputFields = <<>>

\* inputObjectTypes.map(transformInputType(dmmfDocument)), one input type
TransformInputType ==
  /\ inputTypeName # ""
  /\ transformedInputFields = <<>>
  /\ transformedInputFields' =
       transformInputType(inputTypeName, inputTypeFields, modelInputFields)
  /\ UNCHANGED <<inputTypeName, inputTypeFields, modelInputFields>>

(***************************************************************************)
(* Claims about the omission of input-type fields.                         *)
(***************************************************************************)
\* the context an input type belongs to: the operation it is the input of
ClaimContextOf(name) ==
  CASE name \in { "UserCreateInput", "UserUncheckedCreateInput",
                  "UserCreateWithoutPostsInput", "UserCreateWithoutUpdatesInput" }
         -> "Create"
    [] name \in { "UserUpdateInput", "UserUpdateManyMutationInput",
                  "UserUpdateWithoutCreatedPostsInput" } -> "Update"
    [] name \in { "UserWhereInput", "UserWhereUniqueInput" } -> "Where"
    [] name \in { "UserOrderByWithRelationInput", "UserCountOrderByAggregateInput" }
         -> "OrderBy"
    [] OTHER -> "none"

\* the model fields an input-type field of that name is bound to
ClaimBoundFields(fieldName) ==
  IF ClaimContextOf(inputTypeName) = "none" THEN {}
  ELSE { j \in DOMAIN modelInputFields : modelInputFields[j].name = fieldName }

ClaimInputOmitted(omitInput) ==
  IF omitInput.isList THEN ClaimContextOf(inputTypeName) \in omitInput.settings
  ELSE omitInput.flag

\* C25 as stated: an input-type field bound to a model field is not omitted
\* when the model field has no input omission, omitted as the flag says
\* when the omission is a boolean, and for a list of contexts omitted if and
\* only if the input type belongs to one of the listed contexts; a field
\* bound to no model field is never omitted.
C25_AsStated ==
  \A i \in DOMAIN transformedInputFields :
    LET field == transformedInputFields[i]
    IN /\ \A j \in ClaimBoundFields(field.name) :
            field.isOmitted = ClaimInputOmitted(modelInputFields[j].omitInput)
       /\ ClaimBoundFields(field.name) = {} => ~field.isOmitted

(***************************************************************************)
(* The argument bundles of output-type fields: argsTypeName in             *)
(* transformOutputType and the files of OutputBlockGenerator.generate.     *)
(***************************************************************************)
VARIABLES outModelNames, rawOutputs, outputsEnabled, outPc, schemaOutputTypes,
          outputClassFiles, argsClassCalls, argsClassFiles, argsBarrel, outputsBarrel

outVars == <<outModelNames, rawOutputs, outputsEnabled, outPc, schemaOutputTypes,
             outputClassFiles, argsClassCalls, argsClassFiles, argsBarrel, outputsBarrel>>

\* a field of a Prisma output type: its name, the number of its arguments,
\* whether it carries a deprecation
ArgsField(name, nArgs, deprecated) ==
  [name |-> name, nArgs |-> nArgs, deprecated |-> deprecated]

\* an output type with the display name getMappedOutputTypeName gives it
NamedOutputType(name, typeName, fields) ==
  [name |-> name, typeName |-> typeName, fields |-> fields]

\* the relation count type of a model: one field per relation list, with a
\* filter argument or without
CountOutputTypes(modelName, typeNames) ==
  { NamedOutputType(capitalize(modelName) \o <<"Count", "OutputType">>,
                    typeName \o <<"Count", "OutputType">>,
                    << ArgsField(<<"posts">>, postsArgs, deprecated),
                       ArgsField(<<"users">>, usersArgs, FALSE) >>) :
      typeName \in typeNames, postsArgs \in 0..1, usersArgs \in 0..1,
      deprecated \in BOOLEAN }

\* the model's own output type and its root field, both with arguments
ModelOutputType(modelName, typeName) ==
  NamedOutputType(modelName, typeName, << ArgsField(<<"posts">>, 1, FALSE) >>)

QueryOutputType(modelNames) ==
  NamedOutputType(<<"Query">>, <<"Query">>,
                  [i \in DOMAIN modelNames |->
                     ArgsField(<<"findMany">> \o capitalize(modelNames[i]), 1, FALSE)])

AffectedRowsOutput ==
  NamedOutputType(<<"Affected", "Rows", "Output">>, <<"Affected", "Rows", "Output">>,
                  << ArgsField(<<"count">>, 0, FALSE) >>)

\* the display names a model can have: its own or the alias Client
DisplayNames(modelName) == { pascalCase(modelName), <<"Client">> }

\* the output types of a model under each of its display names
ModelTypeLists(modelName) ==
  UNION { { << ModelOutputType(modelName, typeName), count >> :
              count \in CountOutputTypes(modelName, {typeName}) } :
          typeName \in DisplayNames(modelName) }

OutputSchema(modelNames, modelTypes) ==
  [modelNames |-> modelNames,
   outputTypes |-> << QueryOutputType(modelNames), AffectedRowsOutput >> \o modelTypes]

\* schema.outputObjectTypes of a datamodel of one model, or of the two
OutputSchemas ==
  UNION { { OutputSchema(<<n>>, types) : types \in ModelTypeLists(n) } :
          n \in ModelNames } \cup
  { OutputSchema(<< <<"User">>, <<"post">> >>, first \o second) :
      first \in ModelTypeLists(<<"User">>), second \in ModelTypeLists(<<"post">>) }

notDeprecatedField(field) == ~field.deprecated

\* args.length > 0 ? `${typeName}${pascalCase(field.name)}Args` : undefined
argsTypeNameOf(typeName, field) ==
  IF field.nArgs > 0 THEN typeName \o pascalCase(field.name) \o <<"Args">>
  ELSE Undefined

\* the fields without deprecation, each with its argsTypeName
transformOutputTypeArgs(outputType) ==
  LET kept == SelectSeq(outputType.fields, notDeprecatedField)
  IN [name |-> outputType.name,
      typeName |-> outputType.typeName,
      fields |-> [j \in DOMAIN kept |->
                    [name |-> kept[j].name, nArgs |-> kept[j].nArgs,
                     argsTypeName |-> argsTypeNameOf(outputType.typeName, kept[j])]]]

\* neither Query nor Mutation nor named as a model of the datamodel
outputTypesToGenerate(modelNames, types) ==
  LET toGenerate(type) == /\ type.name \notin Range(modelNames)
                          /\ type.name \notin { <<"Query">>, <<"Mutation">> }
  IN SelectSeq(types, toGenerate)

RECURSIVE concatFields(_)
concatFields(types) ==
  IF types = <<>> THEN <<>> ELSE Head(types).fields \o concatFields(Tail(types))

\* the fields of the generated types that have an argsTypeName
outputTypesFieldsArgsToGenerate(types) ==
  LET hasArgsTypeName(field) == field.argsTypeName # Undefined
  IN SelectSeq(concatFields(types), hasArgsTypeName)

NoBarrel == [created |-> FALSE, names |-> <<>>, reexportsArgs |-> FALSE]

OutputsInit ==
  /\ \E schema \in OutputSchemas :
       /\ outModelNames = schema.modelNames
       /\ rawOutputs = schema.outputTypes
  /\ outputsEnabled \in BOOLEAN
  /\ outPc = "new"
  /\ schemaOutputTypes = <<>>
  /\ outputClassFiles = {}
  /\ argsClassCalls = <<>>
  /\ argsClassFiles = {}
  /\ argsBarrel = NoBarrel
  /\ outputsBarrel = NoBarrel

OutputsIdle ==
  /\ outModelNames = <<>>
  /\ rawOutputs = <<>>
  /\ outputsEnabled = FALSE
  /\ outPc = "idle"
  /\ schemaOutputTypes = <<>>
  /\ outputClassFiles = {}
  /\ argsClassCalls = <<>>
  /\ argsClassFiles = {}
  /\ argsBarrel = NoBarrel
  /\ outputsBarrel = NoBarrel

\* outputTypes: outputObjectTypes.map(transformOutputType(dmmfDocument))
TransformOutputTypes ==
  /\ outPc = "new"
  /\ schemaOutputTypes' = [i \in DOMAIN rawOutputs |-> transformOutputTypeArgs(rawOutputs[i])]
  /\ outPc' = "document"
  /\ UNCHANGED <<outModelNames, rawOutputs, outputsEnabled, outputClassFiles,
                 argsClassCalls, argsClassFiles, argsBarrel, outputsBarrel>>

\* OutputBlockGenerator.generate: nothing when the block is not emitted;
\* else a class file per type, an args class file per field with an
\* argsTypeName (createSourceFile overwrites a file of the same path), the
\* args barrel if there is such a field, the outputs barrel
GenerateOutputTypes ==
  /\ outPc = "document"
  /\ IF ~outputsEnabled
       THEN /\ outPc' = "skipped"
            /\ UNCHANGED <<outputClassFiles, argsClassCalls, argsClassFiles, argsBarrel,
                           outputsBarrel>>
       ELSE LET types == outputTypesToGenerate(outModelNames, schemaOutputTypes)
                fieldsArgs == outputTypesFieldsArgsToGenerate(types)
                names == [k \in DOMAIN fieldsArgs |-> fieldsArgs[k].argsTypeName]
            IN /\ outputClassFiles' = { types[i].typeName : i \in DOMAIN types }
               /\ argsClassCalls' = names
               /\ argsClassFiles' = Range(names)
               /\ argsBarrel' = IF fieldsArgs # <<>>
                                  THEN [created |-> TRUE, names |-> names,
                                        reexportsArgs |-> FALSE]
                                  ELSE NoBarrel
               /\ outputsBarrel' =
                    [created |-> TRUE,
                     names |-> [i \in DOMAIN types |-> types[i].typeName],
                     reexportsArgs |->
                       \E i \in DOMAIN types : \E j \in DOMAIN types[i].fields :
                         types[i].fields[j].argsTypeName # Undefined]
               /\ outPc' = "generated"
  /\ UNCHANGED <<outModelNames, rawOutputs, outputsEnabled, schemaOutputTypes>>

(***************************************************************************)
(* Claims about the argument bundles of the output types.                  *)
(***************************************************************************)
\* the output types of the document that are neither root types nor models
ClaimPlainTypes ==
  { i \in DOMAIN schemaOutputTypes :
      /\ schemaOutputTypes[i].name \notin { <<"Query">>, <<"Mutation">> }
      /\ \A k \in DOMAIN outModelNames : schemaOutputTypes[i].name # outModelNames[k] }

\* their fields that take at least one argument
ClaimFieldsWithArgs ==
  { p \in ClaimPlainTypes \X (1..2) :
      /\ p[2] \in DOMAIN schemaOutputTypes[p[1]].fields
      /\ schemaOutputTypes[p[1]].fields[p[2]].nArgs > 0 }

ClaimPascalCase(name) ==
  CASE name = <<"posts">> -> <<"Posts">>
    [] name = <<"users">> -> <<"Users">>
    [] name = <<"count">> -> <<"Count">>

ClaimArgsName(p) ==
  schemaOutputTypes[p[1]].typeName
    \o ClaimPascalCase(schemaOutputTypes[p[1]].fields[p[2]].name) \o <<"Args">>

\* C26 as stated: every field of an output type that is neither Query or
\* Mutation nor a model has an argument-bundle name if and only if it
\* takes an argument, the name being <OutputTypeName><PascalCaseFieldName>Args;
\* the generator creates one args class per such field, the args manifest
\* lists exactly those names, and the outputs manifest re-exports the args
\* manifest if and only if the args manifest file was created.
C26_AsStated ==
  /\ \A i \in ClaimPlainTypes : \A j \in DOMAIN schemaOutputTypes[i].fields :
       IF <<i, j>> \in ClaimFieldsWithArgs
         THEN schemaOutputTypes[i].fields[j].argsTypeName = ClaimArgsName(<<i, j>>)
         ELSE schemaOutputTypes[i].fields[j].argsTypeName = Undefined
  /\ outPc = "generated" =>
       /\ Cardinality(argsClassFiles) = Cardinality(ClaimFieldsWithArgs)
       /\ argsClassFiles = { ClaimArgsName(p) : p \in ClaimFieldsWithArgs }
       /\ Len(argsBarrel.names) = Cardinality(ClaimFieldsWithArgs)
       /\ Range(argsBarrel.names) = { ClaimArgsName(p) : p \in ClaimFieldsWithArgs }
       /\ outputsBarrel.reexportsArgs = argsBarrel.created

(***************************************************************************)
(* SimpleMetricsCollector: emitMetric, getMetrics, reset, onComplete.      *)
(* The readings of Date.now() (timestamp, startTime) are left out.         *)
(***************************************************************************)
VARIABLES
  verboseLogging,
  collectorMetrics,          \* this.metrics
  phaseTimings,
  consoleLog,                \* what the last console.log of logMetric printed
  returnedMetrics,           \* what the last call returned, <<>> for void
  emittedSinceReset          \* the arguments of the emitMetric calls since reset

collectorVars == <<verboseLogging, collectorMetrics, phaseTimings, consoleLog,
                   returnedMetrics, emittedSinceReset>>

\* the longest list of events between two resets
MaxMetrics == 3

MetricPhases == { "dmmf", "enums" }

\* an optional number: undefined, or a value
NoNumber == [given |-> FALSE, value |-> 0]

SomeNumber(value) == [given |-> TRUE, value |-> value]

Durations == { NoNumber, SomeNumber(0), SomeNumber(5) }

Counts == { NoNumber, SomeNumber(2) }

MetricData(phase, duration, count) ==
  [phase |-> phase, duration |-> duration, count |-> count]

\* mutant: a duration of 0 is not tracked
durationIsTracked_truthy(duration) == duration.given /\ duration.value # 0

\* duration !== undefined
durationIsTracked(duration) == duration.given

\* this.phaseTimings.get(phase).push(duration), on a new list if there is none
trackTiming(timings, phase, duration) ==
  IF ~durationIsTracked(duration) THEN timings
  ELSE MapSet(timings, phase,
              Append(IF phase \in DOMAIN timings THEN timings[phase] ELSE <<>>,
                     duration.value))

\* what logMetric prints: the phase, the duration and the count if defined
logLine(metric) ==
  [phase |-> metric.phase, duration |-> metric.duration, count |-> metric.count]

NothingLogged == [phase |-> "", duration |-> NoNumber, count |-> NoNumber]

CollectorInit ==
  /\ verboseLogging \in BOOLEAN
  /\ collectorMetrics = <<>>
  /\ phaseTimings = EmptyMap
  /\ consoleLog = NothingLogged
  /\ returnedMetrics = <<>>
  /\ emittedSinceReset = <<>>

CollectorIdle ==
  /\ verboseLogging = FALSE
  /\ collectorMetrics = <<>>
  /\ phaseTimings = EmptyMap
  /\ consoleLog = NothingLogged
  /\ returnedMetrics = <<>>
  /\ emittedSinceReset = <<>>

\* emitMetric(phase, duration, count): pushed, tracked, logged when verbose
EmitMetric ==
  /\ Len(collectorMetrics) < MaxMetrics
  /\ \E phase \in MetricPhases, duration \in Durations, count \in Counts :
       LET metric == MetricData(phase, duration, count)
       IN /\ collectorMetrics' = Append(collectorMetrics, metric)
          /\ phaseTimings' = trackTiming(phaseTimings, phase, duration)
          /\ consoleLog' = IF verboseLogging THEN logLine(metric) ELSE consoleLog
          /\ emittedSinceReset' = Append(emittedSinceReset, <<phase, duration, count>>)
  /\ returnedMetrics' = <<>>
  /\ UNCHANGED verboseLogging

\* getMetrics(): a copy of the list
GetMetrics ==
  /\ returnedMetrics' = collectorMetrics
  /\ UNCHANGED <<verboseLogging, collectorMetrics, phaseTimings, consoleLog,
                 emittedSinceReset>>

\* reset(): a new list, the timings cleared
ResetMetrics ==
  /\ collectorMetrics' = <<>>
  /\ phaseTimings' = EmptyMap
  /\ emittedSinceReset' = <<>>
  /\ returnedMetrics' = <<>>
  /\ UNCHANGED <<verboseLogging, consoleLog>>

(***************************************************************************)
(* Claims about the recorded events.                                       *)
(***************************************************************************)
\* the defined durations of the events emitted for a phase, in order
RECURSIVE ClaimDurationsOf(_, _)
ClaimDurationsOf(phase, calls) ==
  IF calls = <<>> THEN <<>>
  ELSE LET rest == ClaimDurationsOf(phase, SubSeq(calls, 1, Len(calls) - 1))
           last == calls[Len(calls)]
       IN IF last[1] = phase /\ last[2].given THEN Append(rest, last[2].value) ELSE rest

ClaimStoredTimings(phase) ==
  IF phase \in DOMAIN phaseTimings THEN phaseTimings[phase] ELSE <<>>

\* C27: the recorded events are the events emitted since the last reset, in
\* emission order and unmodified, whatever verboseLogging is, and the
\* timings stored for each phase are the defined durations of its
\* recorded events, in order.
C27_RecordedEvents ==
  /\ Len(collectorMetrics) = Len(emittedSinceReset)
  /\ \A i \in DOMAIN collectorMetrics :
       /\ collectorMetrics[i].phase = emittedSinceReset[i][1]
       /\ collectorMetrics[i].duration = emittedSinceReset[i][2]
       /\ collectorMetrics[i].count = emittedSinceReset[i][3]
  /\ \A phase \in MetricPhases :
       ClaimStoredTimings(phase) = ClaimDurationsOf(phase, emittedSinceReset)

\* two events of one phase, the first with the duration 0, and an event
\* without duration, none of them logged; getMetrics has returned them
C27_Witness ==
  /\ ~verboseLogging
  /\ consoleLog = NothingLogged
  /\ returnedMetrics = collectorMetrics
  /\ Len(collectorMetrics) = 3
  /\ collectorMetrics[1] = MetricData("enums", SomeNumber(0), SomeNumber(2))
  /\ collectorMetrics[2] = MetricData("dmmf", NoNumber, NoNumber)
  /\ collectorMetrics[3] = MetricData("enums", SomeNumber(5), NoNumber)
  /\ phaseTimings["enums"] = <<0, 5>>

(***************************************************************************)
(* Claims about the Unchecked preference of selectInputTypeFromTypes.      *)
(***************************************************************************)
\* the choice among the surviving positions without the Unchecked step
ClaimChoiceWithoutUnchecked(S) ==
  LET lists == { i \in S : inputTypes[i].isList }
  IN IF lists # {} THEN MinOf(lists) ELSE MinOf(S)

ClaimUncheckedAt(i) ==
  \E k \in DOMAIN inputTypes[i].type : inputTypes[i].type[k] = "Unchecked"

\* the Unchecked step decides: the option is on, no survivor is a list, the
\* first survivor is not an Unchecked one and a later survivor is
ClaimUncheckedDecides(S) ==
  /\ useUncheckedScalarInputs
  /\ \A i \in S : ~inputTypes[i].isList
  /\ ~ClaimUncheckedAt(MinOf(S))
  /\ \E i \in S : ClaimUncheckedAt(i)

\* C28 as stated: the Unchecked-preference step is dead code; for every
\* candidate list and every combination of useSimpleInputs and
\* useUncheckedScalarInputs the selected candidate is the one selected
\* with the step removed.
C28_AsStated ==
  selPc = "done" =>
    selectedInputType =
      inputTypes[ClaimChoiceWithoutUnchecked(ClaimSurvivors(NonNullScalarAt))]

\* C28 amended: the step is not dead code. It decides the result exactly
\* when useUncheckedScalarInputs is on, no surviving candidate is
\* list-typed, the first surviving candidate has no "Unchecked" in its
\* type name and another surviving candidate has: the first such candidate
\* is selected and not the first survivor. In every other case the selected
\* candidate is the one selected with the step removed.
C28_UncheckedStep ==
  selPc = "done" =>
    LET S == ClaimSurvivors(NonNullScalarAt)
    IN IF ClaimUncheckedDecides(S)
         THEN /\ selectedInputType = inputTypes[MinOf({ i \in S : ClaimUncheckedAt(i) })]
              /\ selectedInputType # inputTypes[ClaimChoiceWithoutUnchecked(S)]
         ELSE selectedInputType = inputTypes[ClaimChoiceWithoutUnchecked(S)]

\* create data with its checked and its unchecked input, simple inputs on:
\* both survive the denylist and the unchecked one is selected
C28_Witness ==
  /\ selPc = "done"
  /\ useSimpleInputs
  /\ useUncheckedScalarInputs
  /\ inputTypes = << InputTypeRef("inputObjectTypes", <<"User", "Create", "Input">>, FALSE),
                     InputTypeRef("inputObjectTypes",
                                  <<"User", "Unchecked", "Create", "Input">>, FALSE) >>
  /\ selectedInputType =
       InputTypeRef("inputObjectTypes", <<"User", "Unchecked", "Create", "Input">>, FALSE)

(***************************************************************************)
(* transformSchema: the input types kept in schema.inputTypes and the      *)
(* input types selected for their fields and for root-field arguments.     *)
(***************************************************************************)
VARIABLES schemaModelName, schemaUseSimple, schemaUseUnchecked, schemaRootArgs, schemaPc,
          docInputTypes, docRootArgs

schemaVars == <<schemaModelName, schemaUseSimple, schemaUseUnchecked, schemaRootArgs,
                schemaPc, docInputTypes, docRootArgs>>

\* the models a schema is built for: User (display name Client), Item, and
\* a model that has Unchecked in its own name
SchemaModelNames == { <<"User">>, <<"Item">>, <<"Unchecked", "Item">> }

ObjectRef(type, isList) == InputTypeRef("inputObjectTypes", type, isList)

\* the candidates Prisma lists for the arguments of a model's root fields:
\* the checked input before the unchecked one, a single before or after a list
RootArgCandidates(modelName, arg) ==
  CASE arg = "where" -> << ObjectRef(modelName \o <<"Where", "Input">>, FALSE) >>
    [] arg = "create" ->
         << ObjectRef(modelName \o <<"Create", "Input">>, FALSE),
            ObjectRef(modelName \o <<"Unchecked", "Create", "Input">>, FALSE) >>
    [] arg = "update" ->
         << ObjectRef(modelName \o <<"Update", "Input">>, FALSE),
            ObjectRef(modelName \o <<"Unchecked", "Update", "Input">>, FALSE) >>
    [] arg = "createMany" ->
         << ObjectRef(modelName \o <<"Create", "Many", "Input">>, FALSE),
            ObjectRef(modelName \o <<"Create", "Many", "Input">>, TRUE) >>
    [] arg = "orderBy" ->
         << ObjectRef(modelName \o <<"OrderBy", "With", "Relation", "Input">>, TRUE),
            ObjectRef(modelName \o <<"OrderBy", "With", "Relation", "Input">>, FALSE) >>
    [] arg = "take" -> << InputTypeRef("scalar", <<"Int">>, FALSE) >>

RootArgNames == { "where", "create", "update", "createMany", "orderBy", "take" }

RawInputField(name, candidates) == [name |-> name, inputTypes |-> candidates]

RawInputType(name, fields) == [name |-> name, fields |-> fields]

\* schema.inputObjectTypes of the model: each with a scalar field, the
\* filter also with its AND field
RawInputObjectTypes(modelName) ==
  LET nameField == RawInputField("name", << InputTypeRef("scalar", <<"String">>, FALSE) >>)
  IN << RawInputType(modelName \o <<"Where", "Input">>,
          << RawInputField("AND",
               << ObjectRef(modelName \o <<"Where", "Input">>, FALSE),
                  ObjectRef(modelName \o <<"Where", "Input">>, TRUE) >>),
             nameField >>),
        RawInputType(modelName \o <<"Create", "Input">>, <<nameField>>),
        RawInputType(modelName \o <<"Unchecked", "Create", "Input">>, <<nameField>>),
        RawInputType(modelName \o <<"Update", "Input">>, <<nameField>>),
        RawInputType(modelName \o <<"Unchecked", "Update", "Input">>, <<nameField>>),
        RawInputType(modelName \o <<"Create", "Many", "Input">>, <<nameField>>),
        RawInputType(modelName \o <<"OrderBy", "With", "Relation", "Input">>,
                     <<nameField>>) >>

\* the display name of an input type: the model name in front of the first
\* keyword replaced by the model's display name, if there is such a model
InputKeywords == { "Unchecked", "Create", "OrderBy", "Update", "Where" }

getInputTypeName(name) ==
  LET positions == { i \in DOMAIN name : name[i] \in InputKeywords }
      first == CHOOSE i \in positions : \A j \in positions : i <= j
  IN IF positions = {} THEN name
     ELSE IF first = 1 THEN name
     ELSE IF SubSeq(name, 1, first - 1) = <<"User">>
       THEN <<"Client">> \o SubSeq(name, first, Len(name))
     ELSE name

\* useUncheckedScalarInputs ? true : !inputType.name.includes("Unchecked")
uncheckedScalarInputsFilter(unchecked, inputType) ==
  unchecked \/ ~includes(inputType.name, <<"Unchecked">>)

\* the selected candidate with its type name mapped for an input object
selectedWithTypeName(candidates, simple, unchecked) ==
  LET selected == selectInputTypeFromTypes(candidates, simple, unchecked)
  IN IF selected.location = "inputObjectTypes"
       THEN [selected EXCEPT !.type = getInputTypeName(selected.type)]
       ELSE selected

transformInputTypeRefs(inputType, simple, unchecked) ==
  [name |-> inputType.name,
   typeName |-> getInputTypeName(inputType.name),
   fields |-> [j \in DOMAIN inputType.fields |->
                 [name |-> inputType.fields[j].name,
                  selectedInputType |->
                    selectedWithTypeName(inputType.fields[j].inputTypes, simple, unchecked)]]]

\* inputObjectTypes.filter(uncheckedScalarInputsFilter).map(transformInputType)
transformSchemaInputTypes(types, simple, unchecked) ==
  LET keep(inputType) == uncheckedScalarInputsFilter(unchecked, inputType)
      kept == SelectSeq(types, keep)
  IN [i \in DOMAIN kept |-> transformInputTypeRefs(kept[i], simple, unchecked)]

SchemaRootArgLists ==
  { <<first>> : first \in RootArgNames } \cup
  { <<first, second>> : first \in RootArgNames, second \in RootArgNames }

SchemaInit ==
  /\ schemaModelName \in SchemaModelNames
  /\ schemaUseSimple \in BOOLEAN
  /\ schemaUseUnchecked \in BOOLEAN
  /\ schemaRootArgs \in SchemaRootArgLists
  /\ schemaPc = "new"
  /\ docInputTypes = <<>>
  /\ docRootArgs = <<>>

SchemaIdle ==
  /\ schemaModelName = <<>>
  /\ schemaUseSimple = FALSE
  /\ schemaUseUnchecked = FALSE
  /\ schemaRootArgs = <<>>
  /\ schemaPc = "idle"
  /\ docInputTypes = <<>>
  /\ docRootArgs = <<>>

\* transformSchema: the input types, and the arguments of the output fields
TransformSchemaTypes ==
  /\ schemaPc = "new"
  /\ docInputTypes' = transformSchemaInputTypes(RawInputObjectTypes(schemaModelName),
                                                schemaUseSimple, schemaUseUnchecked)
  /\ docRootArgs' = [k \in DOMAIN schemaRootArgs |->
                       [name |-> schemaRootArgs[k],
                        selectedInputType |->
                          selectedWithTypeName(
                            RootArgCandidates(schemaModelName, schemaRootArgs[k]),
                            schemaUseSimple, schemaUseUnchecked)]]
  /\ schemaPc' = "done"
  /\ UNCHANGED <<schemaModelName, schemaUseSimple, schemaUseUnchecked, schemaRootArgs>>

(***************************************************************************)
(* Claims about the selected input types.                                  *)
(***************************************************************************)
\* the input types selected for a field of an input type or for an argument
ClaimSelectedTypes ==
  { docRootArgs[k].selectedInputType : k \in DOMAIN docRootArgs } \cup
  UNION { { docInputTypes[i].fields[j].selectedInputType :
              j \in DOMAIN docInputTypes[i].fields } : i \in DOMAIN docInputTypes }

ClaimNamesUnchecked(type) == \E k \in DOMAIN type : type[k] = "Unchecked"

\* C29 as stated: every selected input-object type is the type name of an
\* input type of schema.inputTypes, and with useUncheckedScalarInputs off
\* no field or argument has an input type with Unchecked in its name
\* selected.
C29_AsStated ==
  schemaPc = "done" =>
    \A selected \in ClaimSelectedTypes :
      selected.location = "inputObjectTypes" =>
        /\ \E i \in DOMAIN docInputTypes : docInputTypes[i].typeName = selected.type
        /\ ~schemaUseUnchecked => ~ClaimNamesUnchecked(selected.type)

(***************************************************************************)
(* Specifications.                                                         *)
(***************************************************************************)
vars == <<selVars, relVars, docVars, pipeVars, cacheVars, blockVars, actVars, classVars, enumVars, inputVars, outVars, collectorVars, schemaVars>>

SelectNext == SelectInputType /\ UNCHANGED <<relVars, docVars, pipeVars, cacheVars, blockVars, actVars, classVars, enumVars, inputVars, outVars, collectorVars, schemaVars>>
InitSelect == SelectInit /\ RelIdle /\ DocIdle /\ PipeIdle /\ CacheIdle /\ BlocksIdle /\ ActIdle /\ ClassIdle /\ EnumsIdle /\ InputIdle /\ OutputsIdle /\ CollectorIdle /\ SchemaIdle
SpecSelect == InitSelect /\ [][SelectNext]_vars

RelNext == GenerateRelationsResolver /\ UNCHANGED <<selVars, docVars, pipeVars, cacheVars, blockVars, actVars, classVars, enumVars, inputVars, outVars, collectorVars, schemaVars>>
InitRel == RelInit /\ SelectIdle /\ DocIdle /\ PipeIdle /\ CacheIdle /\ BlocksIdle /\ ActIdle /\ ClassIdle /\ EnumsIdle /\ InputIdle /\ OutputsIdle /\ CollectorIdle /\ SchemaIdle
SpecRel == InitRel /\ [][RelNext]_vars

DocNext ==
  \/ TransformBareModels /\ UNCHANGED <<selVars, relVars, pipeVars, cacheVars, blockVars, actVars, classVars, enumVars, inputVars, outVars, collectorVars, schemaVars>>
  \/ TransformModelWithFields /\ UNCHANGED <<selVars, relVars, pipeVars, cacheVars, blockVars, actVars, classVars, enumVars, inputVars, outVars, collectorVars, schemaVars>>
  \/ TransformSchema /\ UNCHANGED <<selVars, relVars, pipeVars, cacheVars, blockVars, actVars, classVars, enumVars, inputVars, outVars, collectorVars, schemaVars>>
  \/ TransformMappings /\ UNCHANGED <<selVars, relVars, pipeVars, cacheVars, blockVars, actVars, classVars, enumVars, inputVars, outVars, collectorVars, schemaVars>>
  \/ DeriveRelationModels /\ UNCHANGED <<selVars, relVars, pipeVars, cacheVars, blockVars, actVars, classVars, enumVars, inputVars, outVars, collectorVars, schemaVars>>
  \/ CallGetMappedOutputTypeName /\ UNCHANGED <<selVars, relVars, pipeVars, cacheVars, blockVars, actVars, classVars, enumVars, inputVars, outVars, collectorVars, schemaVars>>
InitDoc == DocInit /\ SelectIdle /\ RelIdle /\ PipeIdle /\ CacheIdle /\ BlocksIdle /\ ActIdle /\ ClassIdle /\ EnumsIdle /\ InputIdle /\ OutputsIdle /\ CollectorIdle /\ SchemaIdle
SpecDoc == InitDoc /\ [][DocNext]_vars

Next ==
  \/ SetupDirectory /\ UNCHANGED <<selVars, relVars, docVars, cacheVars, blockVars, actVars, classVars, enumVars, inputVars, outVars, collectorVars, schemaVars>>
  \/ GetDMMF /\ UNCHANGED <<selVars, relVars, docVars, cacheVars, blockVars, actVars, classVars, enumVars, inputVars, outVars, collectorVars, schemaVars>>
  \/ ParseConfig /\ UNCHANGED <<selVars, relVars, docVars, cacheVars, blockVars, actVars, classVars, enumVars, inputVars, outVars, collectorVars, schemaVars>>
  \/ WriteDMMF /\ UNCHANGED <<selVars, relVars, docVars, cacheVars, blockVars, actVars, classVars, enumVars, inputVars, outVars, collectorVars, schemaVars>>
  \/ BuildDmmfDocument /\ UNCHANGED <<selVars, relVars, docVars, cacheVars, blockVars, actVars, classVars, enumVars, inputVars, outVars, collectorVars, schemaVars>>
  \/ StartBlock /\ UNCHANGED <<selVars, relVars, docVars, cacheVars, blockVars, actVars, classVars, enumVars, inputVars, outVars, collectorVars, schemaVars>>
  \/ CompleteBlock /\ UNCHANGED <<selVars, relVars, docVars, cacheVars, blockVars, actVars, classVars, enumVars, inputVars, outVars, collectorVars, schemaVars>>
  \/ GenerateAuxiliaryFiles /\ UNCHANGED <<selVars, relVars, docVars, cacheVars, blockVars, actVars, classVars, enumVars, inputVars, outVars, collectorVars, schemaVars>>
  \/ CompletePersist /\ UNCHANGED <<selVars, relVars, docVars, cacheVars, blockVars, actVars, classVars, enumVars, inputVars, outVars, collectorVars, schemaVars>>
  \/ CompleteFormatting /\ UNCHANGED <<selVars, relVars, docVars, cacheVars, blockVars, actVars, classVars, enumVars, inputVars, outVars, collectorVars, schemaVars>>
  \/ Complete /\ UNCHANGED <<selVars, relVars, docVars, cacheVars, blockVars, actVars, classVars, enumVars, inputVars, outVars, collectorVars, schemaVars>>
Init == PipeInit /\ SelectIdle /\ RelIdle /\ DocIdle /\ CacheIdle /\ BlocksIdle /\ ActIdle /\ ClassIdle /\ EnumsIdle /\ InputIdle /\ OutputsIdle /\ CollectorIdle /\ SchemaIdle
Spec == Init /\ [][Next]_vars

CacheNext ==
  \/ ConstructDocument /\ UNCHANGED <<selVars, relVars, docVars, pipeVars, blockVars, actVars, classVars, enumVars, inputVars, outVars, collectorVars, schemaVars>>
  \/ LookupOutputTypeName /\ UNCHANGED <<selVars, relVars, docVars, pipeVars, blockVars, actVars, classVars, enumVars, inputVars, outVars, collectorVars, schemaVars>>
InitCache == CacheInit /\ SelectIdle /\ RelIdle /\ DocIdle /\ PipeIdle /\ BlocksIdle /\ ActIdle /\ ClassIdle /\ EnumsIdle /\ InputIdle /\ OutputsIdle /\ CollectorIdle /\ SchemaIdle
SpecCache == InitCache /\ [][CacheNext]_vars

BlocksNext ==
  \/ GenerateBlock /\ UNCHANGED <<selVars, relVars, docVars, pipeVars, cacheVars, actVars, classVars, enumVars, inputVars, outVars, collectorVars, schemaVars>>
  \/ ReturnBlocks /\ UNCHANGED <<selVars, relVars, docVars, pipeVars, cacheVars, actVars, classVars, enumVars, inputVars, outVars, collectorVars, schemaVars>>
InitBlocks == BlocksInit /\ SelectIdle /\ RelIdle /\ DocIdle /\ PipeIdle /\ CacheIdle /\ ActIdle /\ ClassIdle /\ EnumsIdle /\ InputIdle /\ OutputsIdle /\ CollectorIdle /\ SchemaIdle
SpecBlocks == InitBlocks /\ [][BlocksNext]_vars

ActionsNext == TransformMapping /\ UNCHANGED <<selVars, relVars, docVars, pipeVars, cacheVars, blockVars, classVars, enumVars, inputVars, outVars, collectorVars, schemaVars>>
InitActions == ActInit /\ SelectIdle /\ RelIdle /\ DocIdle /\ PipeIdle /\ CacheIdle /\ BlocksIdle /\ ClassIdle /\ EnumsIdle /\ InputIdle /\ OutputsIdle /\ CollectorIdle /\ SchemaIdle
SpecActions == InitActions /\ [][ActionsNext]_vars

ClassNext == GenerateObjectTypeClass /\ UNCHANGED <<selVars, relVars, docVars, pipeVars, cacheVars, blockVars, actVars, enumVars, inputVars, outVars, collectorVars, schemaVars>>
InitClass == ClassInit /\ SelectIdle /\ RelIdle /\ DocIdle /\ PipeIdle /\ CacheIdle /\ BlocksIdle /\ ActIdle /\ EnumsIdle /\ InputIdle /\ OutputsIdle /\ CollectorIdle /\ SchemaIdle
SpecClass == InitClass /\ [][ClassNext]_vars

EnumsNext ==
  \/ TransformEnumsFirst /\ UNCHANGED <<selVars, relVars, docVars, pipeVars, cacheVars, blockVars, actVars, classVars, inputVars, outVars, collectorVars, schemaVars>>
  \/ CacheModelFields /\ UNCHANGED <<selVars, relVars, docVars, pipeVars, cacheVars, blockVars, actVars, classVars, inputVars, outVars, collectorVars, schemaVars>>
  \/ TransformEnumsSecond /\ UNCHANGED <<selVars, relVars, docVars, pipeVars, cacheVars, blockVars, actVars, classVars, inputVars, outVars, collectorVars, schemaVars>>
InitEnums == EnumsInit /\ SelectIdle /\ RelIdle /\ DocIdle /\ PipeIdle /\ CacheIdle /\ BlocksIdle /\ ActIdle /\ ClassIdle /\ InputIdle /\ OutputsIdle /\ CollectorIdle /\ SchemaIdle
SpecEnums == InitEnums /\ [][EnumsNext]_vars

InputNext == TransformInputType /\ UNCHANGED <<selVars, relVars, docVars, pipeVars, cacheVars, blockVars, actVars, classVars, enumVars, outVars, collectorVars, schemaVars>>
InitInput == InputInit /\ SelectIdle /\ RelIdle /\ DocIdle /\ PipeIdle /\ CacheIdle /\ BlocksIdle /\ ActIdle /\ ClassIdle /\ EnumsIdle /\ OutputsIdle /\ CollectorIdle /\ SchemaIdle
SpecInput == InitInput /\ [][InputNext]_vars

OutputsNext ==
  \/ TransformOutputTypes /\ UNCHANGED <<selVars, relVars, docVars, pipeVars, cacheVars, blockVars, actVars, classVars, enumVars, inputVars, collectorVars, schemaVars>>
  \/ GenerateOutputTypes /\ UNCHANGED <<selVars, relVars, docVars, pipeVars, cacheVars, blockVars, actVars, classVars, enumVars, inputVars, collectorVars, schemaVars>>
InitOutputs == OutputsInit /\ SelectIdle /\ RelIdle /\ DocIdle /\ PipeIdle /\ CacheIdle /\ BlocksIdle /\ ActIdle /\ ClassIdle /\ EnumsIdle /\ InputIdle /\ CollectorIdle /\ SchemaIdle
SpecOutputs == InitOutputs /\ [][OutputsNext]_vars

CollectorNext ==
  \/ EmitMetric /\ UNCHANGED <<selVars, relVars, docVars, pipeVars, cacheVars, blockVars, actVars, classVars, enumVars, inputVars, outVars, schemaVars>>
  \/ GetMetrics /\ UNCHANGED <<selVars, relVars, docVars, pipeVars, cacheVars, blockVars, actVars, classVars, enumVars, inputVars, outVars, schemaVars>>
  \/ ResetMetrics /\ UNCHANGED <<selVars, relVars, docVars, pipeVars, cacheVars, blockVars, actVars, classVars, enumVars, inputVars, outVars, schemaVars>>
InitCollector == CollectorInit /\ SelectIdle /\ RelIdle /\ DocIdle /\ PipeIdle /\ CacheIdle /\ BlocksIdle /\ ActIdle /\ ClassIdle /\ EnumsIdle /\ InputIdle /\ OutputsIdle /\ SchemaIdle
SpecCollector == InitCollector /\ [][CollectorNext]_vars

SchemaNext == TransformSchemaTypes /\ UNCHANGED <<selVars, relVars, docVars, pipeVars, cacheVars, blockVars, actVars, classVars, enumVars, inputVars, outVars, collectorVars>>
InitSchema == SchemaInit /\ SelectIdle /\ RelIdle /\ DocIdle /\ PipeIdle /\ CacheIdle /\ BlocksIdle /\ ActIdle /\ ClassIdle /\ EnumsIdle /\ InputIdle /\ OutputsIdle /\ CollectorIdle
SpecSchema == InitSchema /\ [][SchemaNext]_vars

====
